---- MODULE Spec2Model ----
(***************************************************************************)
(* Password manager service layer: UserService, FolderService and          *)
(* PasswordEntryService over the tables users, folders, password_entries.  *)
(* Every service method runs in one SQLAlchemy session: it queries, stages *)
(* changes in the unit of work, flushes and commits, or rolls back and     *)
(* re-raises when the storage raises SQLAlchemyError.                      *)
(***************************************************************************)
EXTENDS Naturals, FiniteSets, TLC

VARIABLES db, uuid, last, prev, tx, nb

vars == <<db, uuid, last, prev, tx, nb>>

\* Bounds of the model: how many primary keys uuid4 hands out per table.
MaxUsers == 2
MaxFolders == 1
MaxEntries == 2
\* Bounds of the field-level specification (one owner, one folder, one entry,
\* update payloads that explicitly set at most MaxPresent fields).
FieldUsers == 1
FieldFolders == 1
FieldEntries == 1
MaxPresent == 1

\* Optional fields a submitted edit form fills in.
MaxFilled == 1

\* Users created while create_user requests run next to each other.
ConcUsers == 4

\* Python's None / SQL NULL.
None == "None"

\* Values of the UUID columns: the n-th uuid4 drawn for a table is ToString(n).
Ids(n) == {ToString(i) : i \in 1..n}

UserIds == Ids(MaxUsers)
FolderIds == Ids(MaxFolders)
EntryIds == Ids(MaxEntries)

\* Input values of the validated request schemas.
Usernames == {"alice", "bob"}
Passwords == {"secret1"}
FolderNames == {"Work", "Home"}
EntryNames == {"Gmail", "GitHub"}
Texts == {"text"}

\* The six attributes PasswordEntryUpdate can carry.
EntryFields == {"name", "username", "password", "website_url", "notes", "folder_id"}
OptionalText == {"username", "password", "website_url", "notes"}

----------------------------------------------------------------------------
\* Queries

\* What a query that matches no row returns (None in place of a mapped object).
NoRow == [found |-> FALSE]

\* Query.first(): the row of a filtered query, or None.
First(rows) == IF rows = {} THEN NoRow ELSE CHOOSE r \in rows : TRUE

get_user_by_id(d, user_id) ==
    First({u \in d.users : u.user_id = user_id})

get_user_by_username(d, username) ==
    First({u \in d.users : u.username = username})

\* Mutant: the fetch filters on the id alone.
get_folder_by_id_AnyOwner(d, folder_id, user_id) ==
    First({f \in d.folders : f.folder_id = folder_id})

get_folder_by_id(d, folder_id, user_id) ==
    First({f \in d.folders : f.folder_id = folder_id /\ f.user_id = user_id})

get_all_folders_for_user(d, user_id) ==
    {f \in d.folders : f.user_id = user_id}

\* Mutant: the fetch filters on the id alone.
get_entry_by_id_AnyOwner(d, entry_id, user_id) ==
    First({e \in d.password_entries : e.entry_id = entry_id})

get_entry_by_id(d, entry_id, user_id) ==
    First({e \in d.password_entries : e.entry_id = entry_id /\ e.user_id = user_id})

\* Mutant: the folder filter is never applied.
get_all_entries_for_user_NoFilter(d, user_id, folder_id) ==
    {e \in d.password_entries : e.user_id = user_id}

get_all_entries_for_user(d, user_id, folder_id) ==
    LET query == {e \in d.password_entries : e.user_id = user_id}
    IN  IF folder_id # None
        THEN {e \in query : e.folder_id = folder_id}
        ELSE query

----------------------------------------------------------------------------
\* The tables' constraints, checked by the storage when a flush writes.

PrimaryKeysOk(d) ==
    /\ \A a, b \in d.users : a.user_id = b.user_id => a = b
    /\ \A a, b \in d.folders : a.folder_id = b.folder_id => a = b
    /\ \A a, b \in d.password_entries : a.entry_id = b.entry_id => a = b

\* Mutant: the username column without unique=True.
UsernameUnique_Off(d) == TRUE

\* users.username: unique=True, nullable=False
UsernameUnique(d) ==
    \A a, b \in d.users : a.username = b.username => a = b

\* nullable=False columns
\* Mutant: the columns without nullable=False.
NotNullOk_Off(d) == TRUE

NotNullOk(d) ==
    /\ \A u \in d.users : u.username # None /\ u.password_hash # None
    /\ \A f \in d.folders : f.user_id # None /\ f.name # None
    /\ \A e \in d.password_entries : e.user_id # None /\ e.name # None

\* folders.user_id and password_entries.user_id: ForeignKey("users.user_id")
\* Mutant: the user_id columns without their ForeignKey.
UserFkOk_Off(d) == TRUE

UserFkOk(d) ==
    /\ \A f \in d.folders : \E u \in d.users : u.user_id = f.user_id
    /\ \A e \in d.password_entries : \E u \in d.users : u.user_id = e.user_id

\* password_entries.folder_id: ForeignKey("folders.folder_id"), nullable
\* Mutant: the folder_id column without its ForeignKey.
FolderFkOk_Off(d) == TRUE

FolderFkOk(d) ==
    \A e \in d.password_entries :
        e.folder_id # None => \E f \in d.folders : f.folder_id = e.folder_id

ConstraintsOk(d) ==
    /\ PrimaryKeysOk(d)
    /\ UsernameUnique(d)
    /\ NotNullOk(d)
    /\ UserFkOk(d)
    /\ FolderFkOk(d)

----------------------------------------------------------------------------
\* The session's unit of work

\* relationship(cascade="all, delete-orphan") on Folder.password_entries:
\* Session.delete(folder) loads the folder's entries, whoever owns them, and
\* marks each of them deleted.
FolderCascade(d, fs) ==
    {e \in d.password_entries : \E f \in fs : e.folder_id = f.folder_id}

\* relationship(cascade="all, delete-orphan") on User.folders and
\* User.password_entries: Session.delete(user) marks the user's folders and
\* entries deleted, and the cascade goes on through each of those folders.
UserCascadeFolders(d, u) ==
    {f \in d.folders : f.user_id = u.user_id}

UserCascadeEntries(d, u) ==
    {e \in d.password_entries : e.user_id = u.user_id}
        \cup FolderCascade(d, UserCascadeFolders(d, u))

\* The referential actions the tables declare, applied by the storage to the
\* rows a DELETE leaves behind: ondelete="CASCADE" on both user_id columns,
\* ondelete="SET NULL" on password_entries.folder_id.
OnDelete(d) ==
    LET fs == {f \in d.folders : \E u \in d.users : u.user_id = f.user_id}
        es == {e \in d.password_entries : \E u \in d.users : u.user_id = e.user_id}
    IN  [users |-> d.users,
         folders |-> fs,
         password_entries |->
            {IF e.folder_id # None /\ ~(\E f \in fs : f.folder_id = e.folder_id)
                THEN [e EXCEPT !.folder_id = None]
                ELSE e : e \in es}]

\* Session.commit() makes the flushed changes the stored state.
Commit(d, pending) == pending

\* Session.rollback() discards them.
Rollback(d, pending) == d

\* No rows of any table.
NoRows == [users |-> {}, folders |-> {}, password_entries |-> {}]

\* A session with no transaction open: load holds the ids the last
\* Session.delete had collected, deleted the ids its DELETEs have removed.
Closed == [pc |-> "idle", user_id |-> None, load |-> NoRows, deleted |-> NoRows]

\* The session of a request that runs next to that one: closed, or between
\* two of its statements.
NbClosed == [pc |-> "idle"]

----------------------------------------------------------------------------
Init ==
    /\ db = NoRows
    /\ uuid = [users |-> 0, folders |-> 0, password_entries |-> 0]
    /\ prev = db
    /\ last = [op |-> "init", out |-> "none", row |-> NoRow]
    /\ tx = Closed
    /\ nb = NbClosed

\* Every method records which method ran, how it ended (the value returned,
\* or the exception raised) and the stored state it started from.
Return(call, out, row) ==
    /\ last' = [op |-> call, out |-> out, row |-> row]
    /\ prev' = db
    /\ UNCHANGED <<tx, nb>>

\* The except branch of every mutating method: rollback, then raise e.
Raise(call, err, pending) ==
    /\ db' = Rollback(db, pending)
    /\ Return(call, err, NoRow)
    /\ UNCHANGED uuid

\* The early return of a method whose ownership-checked fetch found nothing.
NotFound(call, out) ==
    /\ Return(call, out, NoRow)
    /\ UNCHANGED <<db, uuid>>

\* add/modify/delete, then commit: the flush either violates a constraint
\* (IntegrityError) or is committed. table names the table a uuid4 was drawn
\* for, row is the object the method returns after refresh.
Flush(call, out, row, pending, table) ==
    IF ConstraintsOk(pending)
    THEN /\ db' = Commit(db, pending)
         /\ Return(call, out, row)
         /\ uuid' = IF table = None THEN uuid
                    ELSE [uuid EXCEPT ![table] = @ + 1]
    ELSE Raise(call, "IntegrityError", pending)

\* Where the storage fails during a call: nowhere, at a statement of the
\* transaction (the query, the flush or the commit), or at the refresh that
\* follows the commit.
NoFault == "none"
Faults == {"commit", "refresh"}

\* commit, then refresh, inside one try: a refresh that fails raises with the
\* commit already done, and the rollback of the except branch has nothing
\* left to undo.
Refresh(call, row, pending, table, fault) ==
    IF fault = "refresh"
    THEN Flush(call, "OperationalError", NoRow, pending, table)
    ELSE Flush(call, "row", row, pending, table)

----------------------------------------------------------------------------
\* UserService

create_user(user_data, fault) ==
    LET call == "create_user"
        db_user == [user_id |-> ToString(uuid.users + 1),
                    username |-> user_data.username,
                    password_hash |-> user_data.password]
        pending == [db EXCEPT !.users = @ \cup {db_user}]
    IN  IF fault = "commit"
        THEN Raise(call, "OperationalError", pending)
        ELSE Refresh(call, db_user, pending, "users", fault)

\* Mutant: only the users row is deleted, and committed as it is.
delete_user_RowOnly(user_id, fault) ==
    LET db_user == get_user_by_id(db, user_id)
    IN  IF db_user = NoRow
        THEN NotFound("delete_user", "false")
        ELSE /\ db' = [db EXCEPT !.users = @ \ {db_user}]
             /\ Return("delete_user", "true", NoRow)
             /\ UNCHANGED uuid

delete_user(user_id, fault) ==
    LET call == "delete_user"
        db_user == get_user_by_id(db, user_id)
        pending ==
            IF db_user = NoRow THEN db
            ELSE OnDelete([users |-> db.users \ {db_user},
                           folders |-> db.folders \ UserCascadeFolders(db, db_user),
                           password_entries |->
                               db.password_entries \ UserCascadeEntries(db, db_user)])
    IN  IF fault = "commit"
        THEN Raise(call, "OperationalError", pending)
        ELSE IF db_user = NoRow
        THEN NotFound(call, "false")
        ELSE Flush(call, "true", NoRow, pending, None)

----------------------------------------------------------------------------
\* FolderService

create_folder(user_id, folder_data, fault) ==
    LET call == "create_folder"
        db_folder == [folder_id |-> ToString(uuid.folders + 1),
                      user_id |-> user_id,
                      name |-> folder_data.name]
        pending == [db EXCEPT !.folders = @ \cup {db_folder}]
    IN  IF fault = "commit"
        THEN Raise(call, "OperationalError", pending)
        ELSE Refresh(call, db_folder, pending, "folders", fault)

\* Mutant: the folder is fetched by id alone and saved under the caller.
update_folder_Reassign(folder_id, user_id, folder_data, fault) ==
    LET call == "update_folder"
        db_folder == get_folder_by_id_AnyOwner(db, folder_id, user_id)
        updated == [folder_id |-> folder_id, user_id |-> user_id,
                    name |-> folder_data.name]
        pending ==
            IF db_folder = NoRow THEN db
            ELSE [db EXCEPT !.folders = (@ \ {db_folder}) \cup {updated}]
    IN  IF db_folder = NoRow
        THEN NotFound(call, "none")
        ELSE Flush(call, "row", updated, pending, None)

update_folder(folder_id, user_id, folder_data, fault) ==
    LET call == "update_folder"
        db_folder == get_folder_by_id(db, folder_id, user_id)
        updated == [db_folder EXCEPT !.name = folder_data.name]
        pending ==
            IF db_folder = NoRow THEN db
            ELSE [db EXCEPT !.folders = (@ \ {db_folder}) \cup {updated}]
    IN  IF fault = "commit"
        THEN Raise(call, "OperationalError", pending)
        ELSE IF db_folder = NoRow
        THEN NotFound(call, "none")
        ELSE Refresh(call, updated, pending, None, fault)

delete_folder(folder_id, user_id, fault) ==
    LET call == "delete_folder"
        db_folder == get_folder_by_id(db, folder_id, user_id)
        pending ==
            IF db_folder = NoRow THEN db
            ELSE OnDelete([db EXCEPT
                     !.folders = @ \ {db_folder},
                     !.password_entries = @ \ FolderCascade(db, {db_folder})])
    IN  IF fault = "commit"
        THEN Raise(call, "OperationalError", pending)
        ELSE IF db_folder = NoRow
        THEN NotFound(call, "false")
        ELSE Flush(call, "true", NoRow, pending, None)

----------------------------------------------------------------------------
\* PasswordEntryService

create_entry(user_id, entry_data, fault) ==
    LET call == "create_entry"
        db_entry == [entry_id |-> ToString(uuid.password_entries + 1),
                     user_id |-> user_id,
                     name |-> entry_data.name,
                     username |-> entry_data.username,
                     password |-> entry_data.password,
                     website_url |-> entry_data.website_url,
                     notes |-> entry_data.notes,
                     folder_id |-> entry_data.folder_id]
        pending == [db EXCEPT !.password_entries = @ \cup {db_entry}]
    IN  IF fault = "commit"
        THEN Raise(call, "OperationalError", pending)
        ELSE Refresh(call, db_entry, pending, "password_entries", fault)

\* entry_data.model_dump(exclude_unset=True): the fields the caller set.
model_dump(entry_data) ==
    [c \in entry_data.model_fields_set |-> entry_data[c]]

\* Mutant: a value of None is skipped instead of assigned.
SetAttrs_SkipNone(db_entry, update_data) ==
    [c \in DOMAIN db_entry |->
        IF c \in DOMAIN update_data /\ update_data[c] # None
        THEN update_data[c] ELSE db_entry[c]]

\* for field, value in update_data.items(): setattr(db_entry, field, value)
SetAttrs(db_entry, update_data) ==
    [c \in DOMAIN db_entry |->
        IF c \in DOMAIN update_data THEN update_data[c] ELSE db_entry[c]]

update_entry(entry_id, user_id, entry_data, fault) ==
    LET call == "update_entry"
        db_entry == get_entry_by_id(db, entry_id, user_id)
        updated == SetAttrs(db_entry, model_dump(entry_data))
        pending ==
            IF db_entry = NoRow THEN db
            ELSE [db EXCEPT !.password_entries = (@ \ {db_entry}) \cup {updated}]
    IN  IF fault = "commit"
        THEN Raise(call, "OperationalError", pending)
        ELSE IF db_entry = NoRow
        THEN NotFound(call, "none")
        ELSE Refresh(call, updated, pending, None, fault)

\* Mutant: the result of the fetch is not looked at before returning.
delete_entry_AlwaysTrue(entry_id, user_id, fault) ==
    LET call == "delete_entry"
        db_entry == get_entry_by_id(db, entry_id, user_id)
        pending == [db EXCEPT !.password_entries = @ \ {db_entry}]
    IN  Flush(call, "true", NoRow, pending, None)

delete_entry(entry_id, user_id, fault) ==
    LET call == "delete_entry"
        db_entry == get_entry_by_id(db, entry_id, user_id)
        pending ==
            IF db_entry = NoRow THEN db
            ELSE [db EXCEPT !.password_entries = @ \ {db_entry}]
    IN  IF fault = "commit"
        THEN Raise(call, "OperationalError", pending)
        ELSE IF db_entry = NoRow
        THEN NotFound(call, "false")
        ELSE Flush(call, "true", NoRow, pending, None)

----------------------------------------------------------------------------
\* Requests

\* UserCreate
UserCreates == [username : Usernames, password : Passwords]

\* FolderCreate / FolderUpdate
FolderDatas == [name : FolderNames]

\* PasswordEntryCreate: name is required, the other fields default to None.
EntryCreates(texts, folderRefs) ==
    [name : EntryNames, username : texts \cup {None}, password : texts \cup {None},
     website_url : texts \cup {None}, notes : texts \cup {None},
     folder_id : folderRefs \cup {None}]

\* The values a request can give a field of PasswordEntryUpdate.
FieldValues(c, names, texts, folderRefs) ==
    IF c = "name" THEN names \cup {None}
    ELSE IF c = "folder_id" THEN folderRefs \cup {None}
    ELSE texts \cup {None}

\* PasswordEntryUpdate: every field defaults to None, model_fields_set names
\* the ones the caller passed (here among fields, at most maxSet of them).
EntryUpdates(fields, names, texts, folderRefs, maxSet) ==
    UNION {
        {[c \in EntryFields \cup {"model_fields_set"} |->
             IF c = "model_fields_set" THEN S
             ELSE IF c \in S THEN v[c] ELSE None] :
           v \in {w \in [S -> names \cup texts \cup folderRefs \cup {None}] :
                    \A c \in S : w[c] \in FieldValues(c, names, texts, folderRefs)}} :
        S \in {T \in SUBSET fields : Cardinality(T) <= maxSet}}

\* One call of a service method, each in a session of its own, taken as one
\* step: no other request commits while the call runs (what other requests
\* can do between the statements of a call is the subject of the stepwise
\* requests further down). The caller picks the method and its arguments;
\* faults says where the storage may fail during the call (the delete
\* methods have no refresh). users, folders and entries bound the uuid4
\* values drawn per table.
Calls(users, folders, entries, userIds, folderIds, entryIds, entryCreates, entryUpdates, faults) ==
    \/ /\ uuid.users < users
       /\ \E user_data \in UserCreates, fault \in faults :
              create_user(user_data, fault)
    \/ \E user_id \in userIds, fault \in faults \ {"refresh"} :
              delete_user(user_id, fault)
    \/ /\ uuid.folders < folders
       /\ \E user_id \in userIds, folder_data \in FolderDatas, fault \in faults :
              create_folder(user_id, folder_data, fault)
    \/ \E folder_id \in folderIds, user_id \in userIds,
          folder_data \in FolderDatas, fault \in faults :
              update_folder(folder_id, user_id, folder_data, fault)
    \/ \E folder_id \in folderIds, user_id \in userIds, fault \in faults \ {"refresh"} :
              delete_folder(folder_id, user_id, fault)
    \/ /\ uuid.password_entries < entries
       /\ \E user_id \in userIds, entry_data \in entryCreates, fault \in faults :
              create_entry(user_id, entry_data, fault)
    \/ \E entry_id \in entryIds, user_id \in userIds,
          entry_data \in entryUpdates, fault \in faults :
              update_entry(entry_id, user_id, entry_data, fault)
    \/ \E entry_id \in entryIds, user_id \in userIds, fault \in faults \ {"refresh"} :
              delete_entry(entry_id, user_id, fault)

\* Spec: MaxUsers users, MaxFolders folders and MaxEntries entries while the
\* storage stays reachable (constraint violations are its only errors).
\* Entries are created with the optional text left out, and an update names
\* the name or the folder.
SpecEntryCreates == EntryCreates({}, FolderIds)
SpecEntryUpdates == EntryUpdates({"name", "folder_id"}, EntryNames, {}, FolderIds, 1)

Next ==
    Calls(MaxUsers, MaxFolders, MaxEntries, UserIds, FolderIds, EntryIds,
          SpecEntryCreates, SpecEntryUpdates, {NoFault})

Spec == Init /\ [][Next]_vars

----------------------------------------------------------------------------
\* The small population: FieldUsers owners, FieldFolders folders and
\* FieldEntries entries. A caller may pass an owner id that names no user.
FieldUserIds == Ids(FieldUsers + 1)
FieldFolderIds == Ids(FieldFolders)
FieldEntryIds == Ids(FieldEntries)

\* SpecFields: the small population with every field of an entry in play and
\* updates that name up to MaxPresent fields, the storage reachable.
FieldEntryCreates == EntryCreates(Texts, FieldFolderIds)
FieldEntryUpdates ==
    EntryUpdates(EntryFields, EntryNames, Texts, FieldFolderIds, MaxPresent)

NextFields ==
    Calls(FieldUsers, FieldFolders, FieldEntries,
          FieldUserIds, FieldFolderIds, FieldEntryIds,
          FieldEntryCreates, FieldEntryUpdates, {NoFault})

SpecFields == Init /\ [][NextFields]_vars

\* SpecFaults: the small population with a storage that may fail during any
\* call.
FaultEntryCreates == EntryCreates({}, FieldFolderIds)
FaultEntryUpdates ==
    EntryUpdates({"name", "folder_id"}, EntryNames, {}, FieldFolderIds, 1)

NextFaults ==
    Calls(FieldUsers, FieldFolders, FieldEntries,
          FieldUserIds, FieldFolderIds, FieldEntryIds,
          FaultEntryCreates, FaultEntryUpdates, Faults \cup {NoFault})

SpecFaults == Init /\ [][NextFaults]_vars

----------------------------------------------------------------------------
\* The web interface: POST /entries/{entry_id}/edit

\* The hardcoded user id of the web routes. It is a constant of the code, and
\* no uuid4 that create_user draws is equal to it.
TEMP_USER_ID == "00000000-0000-0000-0000-000000000001"

\* The users row of the placeholder identity. No method of the services
\* stores a row under a chosen id: the row is there when the database was
\* prepared with it before the application started.
PlaceholderUser ==
    [user_id |-> TEMP_USER_ID, username |-> "web", password_hash |-> "secret1"]

\* What a form field can arrive as: left out (None), blank, or filled in.
Blank == ""
NotAUuid == "not-a-uuid"

\* The values a form can fill a field in with.
Filled(c) ==
    IF c = "name" THEN EntryNames
    ELSE IF c = "folder_id" THEN FieldFolderIds \cup {NotAUuid}
    ELSE Texts

\* The forms: the name is required; up to MaxFilled of the optional fields
\* are filled in, and the others are all left out or all left blank.
EditForms ==
    UNION {
        {[c \in EntryFields |-> IF c \in S \cup {"name"} THEN v[c] ELSE rest] :
           v \in {w \in [S \cup {"name"} -> EntryNames \cup Texts
                                              \cup FieldFolderIds \cup {NotAUuid}] :
                    \A c \in S \cup {"name"} : w[c] \in Filled(c)},
           rest \in {None, Blank}} :
        S \in {T \in SUBSET (EntryFields \ {"name"}) : Cardinality(T) <= MaxFilled}}

\* value if value else None
OrNone(value) == IF value = None \/ value = Blank THEN None ELSE value

\* Mutant: only the fields the form filled in are passed to the schema.
EditPayload_OnlyFilled(form) ==
    [c \in EntryFields \cup {"model_fields_set"} |->
        IF c = "model_fields_set"
        THEN {f \in EntryFields : OrNone(form[f]) # None}
        ELSE OrNone(form[c])]

\* PasswordEntryUpdate(name=name, username=username if username else None,
\* ..., folder_id=folder_uuid): all six fields are passed, so all are set.
EditPayload(form) ==
    [c \in EntryFields \cup {"model_fields_set"} |->
        IF c = "model_fields_set" THEN EntryFields
        ELSE IF c = "name" THEN form.name
        ELSE OrNone(form[c])]

----------------------------------------------------------------------------
\* delete_user next to other requests. Each request has a session of its own;
\* what a session has flushed is stored for the others only once it commits.

\* The tables in the order the flush of Session.delete(db_user) issues its
\* DELETEs: dependents first.
Statements == {"password_entries", "folders", "users"}

NextStatement(t) ==
    IF t = "password_entries" THEN "folders"
    ELSE IF t = "folders" THEN "users"
    ELSE "commit"

\* The stored state without the rows whose ids an open transaction deleted.
Flushed(d, deleted) ==
    [users |-> {u \in d.users : u.user_id \notin deleted.users},
     folders |-> {f \in d.folders : f.folder_id \notin deleted.folders},
     password_entries |->
        {e \in d.password_entries : e.entry_id \notin deleted.password_entries}]

\* The rows the open transaction has deleted and not committed: a statement
\* of another session that touches or refers to one of them waits.
Held == IF tx.pc = "idle" THEN NoRows ELSE tx.deleted

\* The ids of the rows stored in d.
StoredIds(d) ==
    [users |-> {u.user_id : u \in d.users},
     folders |-> {f.folder_id : f \in d.folders},
     password_entries |-> {e.entry_id : e \in d.password_entries}]

\* Rows of one table only.
Only(t, ids) == [NoRows EXCEPT ![t] = ids]

\* Rows of a or of b, rows of a that are not of b, and whether a and b
\* share a row.
Plus(a, b) ==
    [users |-> a.users \cup b.users,
     folders |-> a.folders \cup b.folders,
     password_entries |-> a.password_entries \cup b.password_entries]

Minus(a, b) ==
    [users |-> a.users \ b.users,
     folders |-> a.folders \ b.folders,
     password_entries |-> a.password_entries \ b.password_entries]

Meets(a, b) == \E t \in Statements : a[t] \cap b[t] # {}

\* The rows of d that the tables' ondelete rules reach when the rows named
\* in load are deleted: the folders and entries of a user (CASCADE), the
\* entries of a folder (SET NULL), those of a cascaded folder included.
Referring(d, load) ==
    LET fs == {f.folder_id : f \in {g \in d.folders : g.user_id \in load.users}}
    IN  [users |-> {},
         folders |-> fs,
         password_entries |->
            {e.entry_id : e \in {g \in d.password_entries :
                                    \/ g.user_id \in load.users
                                    \/ g.folder_id \in load.folders \cup fs}}]

\* The rows the neighbour's session holds a lock on while its transaction is
\* open: the rows its DELETEs removed or changed, and the users row its
\* INSERT has checked FOR KEY SHARE.
NbLocks == IF nb.pc \in {"insert", "delete"} THEN nb.locks ELSE NoRows

\* The rows the stepwise request's open transaction holds a lock on: the
\* stored rows it deleted, and the rows the ondelete rules of those DELETEs
\* changed, which are all that refer to them but the ones the neighbour
\* locked first.
Locked ==
    IF Held = NoRows THEN NoRows
    ELSE LET stored == StoredIds(db)
             held == [users |-> Held.users \cap stored.users,
                      folders |-> Held.folders \cap stored.folders,
                      password_entries |->
                         Held.password_entries \cap stored.password_entries]
         IN  Plus(held, Minus(Referring(db, held), NbLocks))

\* Mutant: the UPDATE sets every attribute that was assigned.
Dirty_All(loaded, update_data) == DOMAIN update_data

\* The attributes the flush writes: those whose assigned value differs from
\* the value the session loaded. An attribute assigned the value it already
\* had is not part of the UPDATE.
Dirty(loaded, update_data) ==
    {c \in DOMAIN update_data : update_data[c] # loaded[c]}

\* UPDATE ... SET <the written attributes> WHERE <primary key>, applied to
\* the row as it is stored when the statement runs.
Update(current, loaded, update_data) ==
    [c \in DOMAIN current |->
        IF c \in Dirty(loaded, update_data) THEN update_data[c] ELSE current[c]]

\* The primary key column of a table.
PrimaryKey(table) ==
    IF table = "users" THEN "user_id"
    ELSE IF table = "folders" THEN "folder_id"
    ELSE "entry_id"

\* The row of table with the primary key of row, as it is stored in d.
Current(d, table, row) ==
    First({r \in d[table] : r[PrimaryKey(table)] = row[PrimaryKey(table)]})

----------------------------------------------------------------------------
\* The requests that run next to the stepwise one. Each has a session of its
\* own, nb, and takes its statements one step at a time: the SELECT of an
\* update or a delete; each DELETE of a flush; the last write of the
\* transaction together with its COMMIT (nothing the other session does can
\* fall between the two that could not as well come before the write or
\* after the commit); the refresh of a create or an update. A statement
\* takes the locks on its rows in turn. It waits at a row the other session
\* has locked and keeps, while it waits, the locks it has: those of the
\* transaction's earlier statements and those it took itself. Two sessions
\* that wait for each other are a deadlock, which the storage ends by
\* failing the statement of one of them (OperationalError).

\* The end of the neighbour's call: return or raise.
OtherReturn(call, out, row) ==
    /\ last' = [op |-> call, out |-> out, row |-> row]
    /\ prev' = db
    /\ nb' = NbClosed
    /\ UNCHANGED tx

\* self.db.add(row); self.db.commit(): the INSERT is checked against what is
\* stored when it commits; then the refresh is left to do. A failure rolls
\* back and raises.
OtherInsert(call, table, row, fault) ==
    LET pending == [db EXCEPT ![table] = @ \cup {row}]
        out == IF fault THEN "OperationalError"
               ELSE IF ConstraintsOk(pending) THEN "row"
               ELSE "IntegrityError"
    IN  IF out = "row"
        THEN /\ db' = Commit(db, pending)
             /\ uuid' = [uuid EXCEPT ![table] = @ + 1]
             /\ nb' = [pc |-> "refresh", call |-> call, table |-> table,
                       row |-> row]
             /\ prev' = db
             /\ UNCHANGED <<last, tx>>
        ELSE /\ db' = Rollback(db, pending)
             /\ OtherReturn(call, out, NoRow)
             /\ UNCHANGED uuid

\* create_user up to its commit. The INSERT of a username that a user under
\* an uncommitted DELETE has waits for that transaction.
other_create_user(user_data, fault) ==
    /\ nb.pc = "idle"
    /\ \A u \in db.users :
          u.user_id \in Held.users => u.username # user_data.username
    /\ OtherInsert("create_user", "users",
                   [user_id |-> ToString(uuid.users + 1),
                    username |-> user_data.username,
                    password_hash |-> user_data.password], fault)

\* create_folder up to its commit. The INSERT waits when its owner is under
\* an uncommitted DELETE.
other_create_folder(user_id, folder_data, fault) ==
    /\ nb.pc = "idle"
    /\ user_id \notin Locked.users
    /\ OtherInsert("create_folder", "folders",
                   [folder_id |-> ToString(uuid.folders + 1),
                    user_id |-> user_id,
                    name |-> folder_data.name], fault)

\* create_entry up to its commit, or up to where its INSERT must wait. The
\* INSERT checks its two foreign keys in the order the columns are declared,
\* each with a FOR KEY SHARE lock on the row referred to: user_id first,
\* where it waits when the owner is under an uncommitted DELETE and fails at
\* once when the owner is not stored; then folder_id, where it waits when
\* the folder is under an uncommitted DELETE, with the lock on its owner's
\* row kept: no DELETE of that user gets by before the INSERT has ended.
other_create_entry(user_id, entry_data, fault) ==
    LET row == [entry_id |-> ToString(uuid.password_entries + 1),
                user_id |-> user_id,
                name |-> entry_data.name,
                username |-> entry_data.username,
                password |-> entry_data.password,
                website_url |-> entry_data.website_url,
                notes |-> entry_data.notes,
                folder_id |-> entry_data.folder_id]
    IN  /\ nb.pc = "idle"
        /\ user_id \notin Locked.users
        /\ IF /\ ~fault
              /\ UserFkOk([db EXCEPT !.password_entries = @ \cup {row}])
              /\ entry_data.folder_id \in Locked.folders
           THEN /\ nb' = [pc |-> "insert", call |-> "create_entry",
                          table |-> "password_entries", row |-> row,
                          locks |-> Only("users", {user_id})]
                /\ UNCHANGED <<db, uuid, last, prev, tx>>
           ELSE OtherInsert("create_entry", "password_entries", row, fault)

\* The INSERT of create_entry goes on when the transaction that had deleted
\* its folder has ended: committed, and the folder is stored no more
\* (IntegrityError), or rolled back, and the entry is stored.
other_create_entry_insert(fault) ==
    /\ nb.pc = "insert"
    /\ fault \/ nb.row.folder_id \notin Locked.folders
    /\ OtherInsert(nb.call, nb.table, nb.row, fault)

\* self.db.refresh(row); return row, or rollback and raise: the row as it is
\* stored now, InvalidRequestError when it is stored no more.
other_refresh(fault) ==
    /\ nb.pc = "refresh"
    /\ LET current == Current(db, nb.table, nb.row)
           out == IF fault THEN "OperationalError"
                  ELSE IF current = NoRow THEN "InvalidRequestError"
                  ELSE "row"
       IN  /\ OtherReturn(nb.call, out, IF out = "row" THEN current ELSE NoRow)
           /\ UNCHANGED <<db, uuid>>

\* update_entry up to its assignments: the ownership-checked SELECT, None
\* when it finds nothing, setattr for the fields that were set.
other_update_entry_query(entry_id, user_id, entry_data) ==
    /\ nb.pc = "idle"
    /\ LET db_entry == get_entry_by_id(db, entry_id, user_id)
       IN  IF db_entry = NoRow
           THEN OtherReturn("update_entry", "none", NoRow) /\ UNCHANGED <<db, uuid>>
           ELSE /\ nb' = [pc |-> "update", call |-> "update_entry",
                          table |-> "password_entries", row |-> db_entry,
                          data |-> model_dump(entry_data)]
                /\ UNCHANGED <<db, uuid, last, prev, tx>>

\* update_folder up to its assignment.
other_update_folder_query(folder_id, user_id, folder_data) ==
    /\ nb.pc = "idle"
    /\ LET db_folder == get_folder_by_id(db, folder_id, user_id)
       IN  IF db_folder = NoRow
           THEN OtherReturn("update_folder", "none", NoRow) /\ UNCHANGED <<db, uuid>>
           ELSE /\ nb' = [pc |-> "update", call |-> "update_folder",
                          table |-> "folders", row |-> db_folder,
                          data |-> [name |-> folder_data.name]]
                /\ UNCHANGED <<db, uuid, last, prev, tx>>

\* self.db.commit() of an update: the UPDATE of the attributes that changed,
\* applied to the row as stored now. It waits while the row, or the folder it
\* newly refers to, is locked by the stepwise request's open transaction: a
\* row under its uncommitted DELETE, or one the ondelete rules of that
\* DELETE changed. A row that is stored no more gives StaleDataError; with
\* nothing to write nothing is sent.
other_update_commit(fault) ==
    /\ nb.pc = "update"
    /\ LET current == Current(db, nb.table, nb.row)
           dirty == Dirty(nb.row, nb.data)
           updated == Update(current, nb.row, nb.data)
           pending ==
               IF current = NoRow THEN db
               ELSE [db EXCEPT ![nb.table] = (@ \ {current}) \cup {updated}]
           out == IF fault THEN "OperationalError"
                  ELSE IF current = NoRow /\ dirty # {} THEN "StaleDataError"
                  ELSE IF ConstraintsOk(pending) THEN "row"
                  ELSE "IntegrityError"
       IN  /\ dirty # {} =>
                 /\ nb.row[PrimaryKey(nb.table)] \notin Locked[nb.table]
                 /\ "folder_id" \in dirty => nb.data.folder_id \notin Locked.folders
           /\ IF out = "row"
              THEN /\ db' = Commit(db, pending)
                   /\ nb' = [nb EXCEPT !.pc = "refresh"]
                   /\ prev' = db
                   /\ UNCHANGED <<uuid, last, tx>>
              ELSE /\ db' = Rollback(db, pending)
                   /\ OtherReturn(nb.call, out, NoRow)
                   /\ UNCHANGED uuid

\* The neighbour's session after Session.delete(row): load names the rows it
\* collected, locks the rows its DELETEs have locked so far.
OtherDelete(call, load) ==
    /\ nb' = [pc |-> "delete", call |-> call, load |-> load, locks |-> NoRows]
    /\ UNCHANGED <<db, uuid, last, prev, tx>>

\* delete_user up to self.db.delete(db_user): False when there is no such
\* user.
other_delete_user_query(user_id) ==
    /\ nb.pc = "idle"
    /\ LET db_user == get_user_by_id(db, user_id)
       IN  IF db_user = NoRow
           THEN OtherReturn("delete_user", "false", NoRow) /\ UNCHANGED <<db, uuid>>
           ELSE OtherDelete("delete_user",
                    [users |-> {user_id},
                     folders |-> {f.folder_id : f \in UserCascadeFolders(db, db_user)},
                     password_entries |->
                         {e.entry_id : e \in UserCascadeEntries(db, db_user)}])

\* delete_folder up to self.db.delete(db_folder).
other_delete_folder_query(folder_id, user_id) ==
    /\ nb.pc = "idle"
    /\ LET db_folder == get_folder_by_id(db, folder_id, user_id)
       IN  IF db_folder = NoRow
           THEN OtherReturn("delete_folder", "false", NoRow) /\ UNCHANGED <<db, uuid>>
           ELSE OtherDelete("delete_folder",
                    [users |-> {},
                     folders |-> {folder_id},
                     password_entries |->
                         {e.entry_id : e \in FolderCascade(db, {db_folder})}])

\* delete_entry up to self.db.delete(db_entry).
other_delete_entry_query(entry_id, user_id) ==
    /\ nb.pc = "idle"
    /\ LET db_entry == get_entry_by_id(db, entry_id, user_id)
       IN  IF db_entry = NoRow
           THEN OtherReturn("delete_entry", "false", NoRow) /\ UNCHANGED <<db, uuid>>
           ELSE OtherDelete("delete_entry",
                    [users |-> {}, folders |-> {},
                     password_entries |-> {entry_id}])

\* The flush of a delete issues one DELETE for each table it collected rows
\* of, dependents first. The DELETE of table t names the collected rows that
\* are still stored, by primary key (rows), and the table's ondelete rules
\* then reach the rows that refer to them (reached); left out are the rows
\* the session has locked already.
OtherRows(t) ==
    Minus(Only(t, nb.load[t] \cap StoredIds(db)[t]), nb.locks)

OtherReached(t) ==
    Minus(Minus(Referring(db, Only(t, nb.load[t])), nb.load), nb.locks)

OtherHasStatement(t) ==
    nb.load[t] # {} /\ Plus(OtherRows(t), OtherReached(t)) # NoRows

\* The table of the DELETE the neighbour's flush is at, None past the last.
OtherStatement ==
    IF OtherHasStatement("password_entries") THEN "password_entries"
    ELSE IF OtherHasStatement("folders") THEN "folders"
    ELSE IF OtherHasStatement("users") THEN "users"
    ELSE None

\* Whether a DELETE follows the one of table t in the flush.
OtherHasLater(t) ==
    \/ t = "password_entries" /\ OtherHasStatement("folders")
    \/ t \in {"password_entries", "folders"} /\ OtherHasStatement("users")

\* Whether the DELETE of table t must wait for the other session.
OtherWaits(t) ==
    Held # NoRows /\ Meets(Plus(OtherRows(t), OtherReached(t)), Locked)

\* The locks the DELETE of table t takes: all of its rows, or, where it must
\* wait, those it comes to before the row it waits for. Rows are deleted in
\* the order of their primary keys, which uuid4 makes any order.
OtherTakes(t) ==
    IF Meets(OtherRows(t), Locked) THEN Minus(OtherRows(t), Locked)
    ELSE Plus(OtherRows(t), Minus(OtherReached(t), Locked))

\* What the neighbour's open transaction would store: the stored state
\* without the rows it deleted.
OtherPending == IF nb.pc = "delete" THEN Flushed(db, nb.locks) ELSE db

\* self.db.commit() of a delete, the flush: a DELETE that is not the last of
\* the transaction, or one that must wait. The session keeps the locks on
\* the rows it has deleted until its transaction ends.
other_delete_flush(fault) ==
    /\ nb.pc = "delete"
    /\ OtherStatement # None
    /\ OtherHasLater(OtherStatement) \/ OtherWaits(OtherStatement)
    /\ IF fault
       THEN /\ db' = Rollback(db, OtherPending)
            /\ OtherReturn(nb.call, "OperationalError", NoRow)
            /\ UNCHANGED uuid
       ELSE /\ nb' = [nb EXCEPT !.locks = Plus(@, OtherTakes(OtherStatement))]
            /\ nb' # nb
            /\ UNCHANGED <<db, uuid, last, prev, tx>>

\* self.db.commit() of a delete, its last DELETE and the COMMIT; return
\* True. The tables' ondelete rules have reached the rows that referred to
\* the deleted ones. A row that is stored no more matches no DELETE, which
\* the session only warns about: the method still returns True.
other_delete_commit(fault) ==
    /\ nb.pc = "delete"
    /\ \/ OtherStatement = None
       \/ ~OtherHasLater(OtherStatement) /\ ~OtherWaits(OtherStatement)
    /\ LET pending == OnDelete(Flushed(db, nb.load))
           out == IF fault THEN "OperationalError"
                  ELSE IF ConstraintsOk(pending) THEN "true"
                  ELSE "IntegrityError"
       IN  /\ db' = IF out = "true" THEN Commit(db, pending)
                    ELSE Rollback(db, pending)
           /\ OtherReturn(nb.call, out, NoRow)
           /\ UNCHANGED uuid

----------------------------------------------------------------------------
\* delete_user, statement by statement.

\* except SQLAlchemyError: rollback, raise.
Abort(err) ==
    /\ db' = Rollback(db, Flushed(db, tx.deleted))
    /\ last' = [op |-> "delete_user", out |-> err, row |-> NoRow]
    /\ prev' = db
    /\ tx' = [tx EXCEPT !.pc = "idle"]
    /\ UNCHANGED uuid

\* db_user = self.get_user_by_id(user_id); if not db_user: return False;
\* self.db.delete(db_user) collects the user's folders and entries.
delete_user_query(user_id, fault) ==
    /\ tx.pc = "idle"
    /\ UNCHANGED nb
    /\ LET db_user == get_user_by_id(db, user_id)
       IN  IF fault
           THEN Raise("delete_user", "OperationalError", db)
           ELSE IF db_user = NoRow
           THEN NotFound("delete_user", "false")
           ELSE /\ tx' = [pc |-> "password_entries",
                          user_id |-> user_id,
                          load |-> [users |-> {user_id},
                                    folders |-> {f.folder_id :
                                        f \in UserCascadeFolders(db, db_user)},
                                    password_entries |-> {e.entry_id :
                                        e \in UserCascadeEntries(db, db_user)}],
                          deleted |-> NoRows]
                /\ UNCHANGED <<db, uuid, last, prev>>

\* Mutant: every DELETE is committed as it is issued.
delete_user_flush_Autocommit(fault) ==
    /\ tx.pc \in Statements
    /\ UNCHANGED nb
    /\ IF fault
       THEN Abort("OperationalError")
       ELSE /\ tx' = [tx EXCEPT !.deleted[tx.pc] = tx.load[tx.pc],
                                !.pc = NextStatement(tx.pc)]
            /\ db' = Flushed(db, tx'.deleted)
            /\ UNCHANGED <<uuid, last, prev>>

\* The rows the DELETE of table t in the flush of delete_user names that it
\* has yet to delete, and the rows the table's ondelete rules then reach.
UserRows(t) ==
    Only(t, (tx.load[t] \ tx.deleted[t]) \cap StoredIds(db)[t])

UserReached(t) ==
    Minus(Referring(db, Only(t, tx.load[t])), tx.load)

\* self.db.commit(), the flush: the DELETE of one table's collected rows,
\* inside the transaction. It waits while the neighbour has a lock on one of
\* those rows; with the rows deleted, its ondelete rules wait while the
\* neighbour has a lock on a row they reach, and then the next DELETE is
\* not yet issued.
delete_user_flush(fault) ==
    /\ tx.pc \in Statements
    /\ UNCHANGED nb
    /\ IF fault
       THEN Abort("OperationalError")
       ELSE /\ ~Meets(UserRows(tx.pc), NbLocks)
            /\ tx' = [tx EXCEPT !.deleted[tx.pc] = tx.load[tx.pc],
                                !.pc = IF Meets(UserReached(tx.pc), NbLocks)
                                       THEN tx.pc
                                       ELSE NextStatement(tx.pc)]
            /\ tx' # tx
            /\ UNCHANGED <<db, uuid, last, prev>>

\* self.db.commit(), the COMMIT: the deletions and what the tables' ondelete
\* rules did to the rows left behind are stored at once; return True.
delete_user_commit(fault) ==
    /\ tx.pc = "commit"
    /\ UNCHANGED nb
    /\ LET pending == OnDelete(Flushed(db, tx.deleted))
       IN  IF fault
           THEN Abort("OperationalError")
           ELSE IF ConstraintsOk(pending)
           THEN /\ db' = Commit(db, pending)
                /\ last' = [op |-> "delete_user", out |-> "true", row |-> NoRow]
                /\ prev' = db
                /\ tx' = [tx EXCEPT !.pc = "idle"]
                /\ UNCHANGED uuid
           ELSE Abort("IntegrityError")

\* delete_user waits for a row the neighbour has locked: its DELETE of the
\* table it is at, or the ondelete rules of that DELETE.
delete_user_waits ==
    /\ tx.pc \in Statements
    /\ NbLocks # NoRows
    /\ Meets(Plus(UserRows(tx.pc), UserReached(tx.pc)), NbLocks)

\* The neighbour waits for a row delete_user has locked: the INSERT of
\* create_entry for its folder, or the DELETE its flush is at.
other_waits ==
    \/ nb.pc = "insert" /\ nb.row.folder_id \in Locked.folders
    \/ nb.pc = "delete" /\ OtherStatement # None /\ OtherWaits(OtherStatement)

\* Each of the two sessions waits for a row the other has locked. The
\* storage detects the deadlock and fails the statement of one of them:
\* that call rolls back and raises OperationalError, and the other goes on.
deadlock_detected(victim) ==
    /\ delete_user_waits
    /\ other_waits
    /\ IF victim = "delete_user"
       THEN /\ Abort("OperationalError")
            /\ UNCHANGED nb
       ELSE /\ db' = Rollback(db, OtherPending)
            /\ OtherReturn(nb.call, "OperationalError", NoRow)
            /\ UNCHANGED uuid

\* The folders and entries the other requests of SpecConc create: one name
\* each, the entries in the folder or in none.
ConcFolderDatas == {f \in FolderDatas : f.name = "Work"}
ConcEntryCreates == {e \in SpecEntryCreates : e.name = "Gmail"}

\* SpecConc: one request runs delete_user statement by statement while other
\* requests create users, folders and entries and delete entries and
\* folders, one after the other and each statement by statement. The
\* storage can fail at any statement of either.
NextConc ==
    \/ \E user_id \in UserIds, fault \in BOOLEAN :
           delete_user_query(user_id, fault)
    \/ \E fault \in BOOLEAN : delete_user_flush(fault)
    \/ \E fault \in BOOLEAN : delete_user_commit(fault)
    \/ /\ uuid.users < MaxUsers
       /\ \E user_data \in UserCreates, fault \in BOOLEAN :
              other_create_user(user_data, fault)
    \/ /\ uuid.folders < MaxFolders
       /\ \E user_id \in UserIds, folder_data \in ConcFolderDatas,
             fault \in BOOLEAN :
              other_create_folder(user_id, folder_data, fault)
    \/ /\ uuid.password_entries < MaxEntries
       /\ \E user_id \in UserIds, entry_data \in ConcEntryCreates,
             fault \in BOOLEAN :
              other_create_entry(user_id, entry_data, fault)
    \/ \E fault \in BOOLEAN : other_create_entry_insert(fault)
    \/ \E fault \in BOOLEAN : other_refresh(fault)
    \/ \E entry_id \in EntryIds, user_id \in UserIds :
              other_delete_entry_query(entry_id, user_id)
    \/ \E folder_id \in FolderIds, user_id \in UserIds :
              other_delete_folder_query(folder_id, user_id)
    \/ \E fault \in BOOLEAN : other_delete_flush(fault)
    \/ \E fault \in BOOLEAN : other_delete_commit(fault)
    \/ \E victim \in {"delete_user", "other"} : deadlock_detected(victim)

SpecConc == Init /\ [][NextConc]_vars

----------------------------------------------------------------------------
\* delete_folder next to other requests.

\* except SQLAlchemyError: rollback, raise.
AbortFolder(err) ==
    /\ db' = Rollback(db, Flushed(db, tx.deleted))
    /\ last' = [op |-> "delete_folder", out |-> err, row |-> NoRow]
    /\ prev' = db
    /\ tx' = [tx EXCEPT !.pc = "idle"]
    /\ UNCHANGED uuid

\* db_folder = self.get_folder_by_id(folder_id, user_id); if not db_folder:
\* return False; self.db.delete(db_folder) collects the folder's entries.
delete_folder_query(folder_id, user_id, fault) ==
    /\ tx.pc = "idle"
    /\ UNCHANGED nb
    /\ LET db_folder == get_folder_by_id(db, folder_id, user_id)
       IN  IF fault
           THEN Raise("delete_folder", "OperationalError", db)
           ELSE IF db_folder = NoRow
           THEN NotFound("delete_folder", "false")
           ELSE /\ tx' = [pc |-> "password_entries",
                          user_id |-> user_id,
                          load |-> [users |-> {},
                                    folders |-> {folder_id},
                                    password_entries |-> {e.entry_id :
                                        e \in FolderCascade(db, {db_folder})}],
                          deleted |-> NoRows]
                /\ UNCHANGED <<db, uuid, last, prev>>

\* self.db.commit(), the flush: the DELETE of the collected entries, then
\* the DELETE of the folder, inside the transaction.
delete_folder_flush(fault) ==
    /\ tx.pc \in {"password_entries", "folders"}
    /\ UNCHANGED nb
    /\ IF fault
       THEN AbortFolder("OperationalError")
       ELSE /\ tx' = [tx EXCEPT
                         !.deleted[tx.pc] = tx.load[tx.pc],
                         !.pc = IF tx.pc = "folders" THEN "commit"
                                ELSE NextStatement(tx.pc)]
            /\ UNCHANGED <<db, uuid, last, prev>>

\* self.db.commit(), the COMMIT: the deletions and the SET NULL of the
\* entries still referring to the folder are stored at once; return True.
delete_folder_commit(fault) ==
    /\ tx.pc = "commit"
    /\ UNCHANGED nb
    /\ LET pending == OnDelete(Flushed(db, tx.deleted))
       IN  IF fault
           THEN AbortFolder("OperationalError")
           ELSE IF ConstraintsOk(pending)
           THEN /\ db' = Commit(db, pending)
                /\ last' = [op |-> "delete_folder", out |-> "true", row |-> NoRow]
                /\ prev' = db
                /\ tx' = [tx EXCEPT !.pc = "idle"]
                /\ UNCHANGED uuid
           ELSE AbortFolder("IntegrityError")

\* SpecConcFolder: one request runs delete_folder statement by statement
\* while other requests create users, folders and entries and update
\* entries, one after the other and each statement by statement.
NextConcFolder ==
    \/ \E folder_id \in FolderIds, user_id \in UserIds, fault \in BOOLEAN :
           delete_folder_query(folder_id, user_id, fault)
    \/ \E fault \in BOOLEAN : delete_folder_flush(fault)
    \/ \E fault \in BOOLEAN : delete_folder_commit(fault)
    \/ /\ uuid.users < MaxUsers
       /\ \E user_data \in UserCreates :
              other_create_user(user_data, FALSE)
    \/ /\ uuid.folders < MaxFolders
       /\ \E user_id \in UserIds, folder_data \in FolderDatas :
              other_create_folder(user_id, folder_data, FALSE)
    \/ /\ uuid.password_entries < MaxEntries
       /\ \E user_id \in UserIds, entry_data \in SpecEntryCreates :
              other_create_entry(user_id, entry_data, FALSE)
    \/ other_create_entry_insert(FALSE)
    \/ \E entry_id \in EntryIds, user_id \in UserIds,
          entry_data \in SpecEntryUpdates :
              other_update_entry_query(entry_id, user_id, entry_data)
    \/ other_update_commit(FALSE)
    \/ other_refresh(FALSE)

SpecConcFolder == Init /\ [][NextConcFolder]_vars

----------------------------------------------------------------------------
\* create_user next to other requests.

\* db_user = User(username=..., password_hash=...); self.db.add(db_user):
\* the new user is pending in the session, with the uuid4 drawn for it. No
\* query for the username is made, and nothing is sent to the storage yet.
create_user_add(user_data) ==
    /\ tx.pc = "idle"
    /\ UNCHANGED nb
    /\ tx' = [pc |-> "insert",
              user_id |-> ToString(uuid.users + 1),
              row |-> [user_id |-> ToString(uuid.users + 1),
                       username |-> user_data.username,
                       password_hash |-> user_data.password],
              load |-> NoRows,
              deleted |-> NoRows]
    /\ uuid' = [uuid EXCEPT !.users = @ + 1]
    /\ UNCHANGED <<db, last, prev>>

\* Mutant: the INSERT is stored without the table's constraints.
create_user_commit_Unchecked(fault) ==
    /\ tx.pc = "insert"
    /\ UNCHANGED nb
    /\ db' = [db EXCEPT !.users = @ \cup {tx.row}]
    /\ prev' = db
    /\ tx' = [tx EXCEPT !.pc = "refresh"]
    /\ UNCHANGED <<uuid, last>>

\* self.db.commit(). The INSERT is checked against what is stored when it
\* commits: a request that meets a username another request stored in the
\* meantime gets IntegrityError, rolls back and raises. After a commit that
\* succeeds the request still has its refresh to do.
create_user_commit(fault) ==
    /\ tx.pc = "insert"
    /\ UNCHANGED nb
    /\ LET pending == [db EXCEPT !.users = @ \cup {tx.row}]
           out == IF fault THEN "OperationalError"
                  ELSE IF ConstraintsOk(pending) THEN "row"
                  ELSE "IntegrityError"
       IN  IF out = "row"
           THEN /\ db' = Commit(db, pending)
                /\ tx' = [tx EXCEPT !.pc = "refresh"]
                /\ prev' = db
                /\ UNCHANGED <<uuid, last>>
           ELSE /\ db' = Rollback(db, pending)
                /\ last' = [op |-> "create_user", out |-> out, row |-> NoRow]
                /\ prev' = db
                /\ tx' = [tx EXCEPT !.pc = "idle"]
                /\ UNCHANGED uuid

\* self.db.refresh(row); return row, or rollback and raise. current is the
\* row as stored now, which is what the method returns: another request may
\* have changed it since the commit, or deleted it (InvalidRequestError).
\* The commit stands whatever the refresh does.
RefreshRow(call, current, fault) ==
    LET out == IF fault THEN "OperationalError"
               ELSE IF current = NoRow THEN "InvalidRequestError"
               ELSE "row"
    IN  /\ last' = [op |-> call, out |-> out,
                    row |-> IF out = "row" THEN current ELSE NoRow]
        /\ prev' = db
        /\ tx' = [tx EXCEPT !.pc = "idle"]
        /\ UNCHANGED <<db, uuid>>

\* self.db.refresh(db_user); return db_user.
create_user_refresh(fault) ==
    /\ tx.pc = "refresh"
    /\ UNCHANGED nb
    /\ RefreshRow("create_user", get_user_by_id(db, tx.row.user_id), fault)

\* SpecConcUsers: one request runs create_user in three steps, the add, the
\* commit and the refresh, while other requests create and delete users and
\* create folders, one after the other and each statement by statement.
NextConcUsers ==
    \/ /\ uuid.users < ConcUsers
       /\ \E user_data \in UserCreates : create_user_add(user_data)
    \/ \E fault \in BOOLEAN : create_user_commit(fault)
    \/ \E fault \in BOOLEAN : create_user_refresh(fault)
    \/ /\ uuid.users < ConcUsers
       /\ \E user_data \in UserCreates :
              other_create_user(user_data, FALSE)
    \/ \E user_id \in Ids(ConcUsers) : other_delete_user_query(user_id)
    \/ other_delete_flush(FALSE)
    \/ other_delete_commit(FALSE)
    \/ /\ uuid.folders < MaxFolders
       /\ \E user_id \in Ids(ConcUsers), folder_data \in FolderDatas :
              other_create_folder(user_id, folder_data, FALSE)
    \/ other_refresh(FALSE)

SpecConcUsers == Init /\ [][NextConcUsers]_vars

----------------------------------------------------------------------------
\* update_entry and update_folder next to other requests.

\* self.db.commit(), or rollback and raise. table is the row's table,
\* current the row as stored now, refresh the position of the request after
\* a commit that succeeds. When another request has deleted the row, an
\* UPDATE matches no row (StaleDataError), and a flush with nothing to write
\* commits nothing. The UPDATE waits while the row, or the folder it newly
\* refers to, is under the neighbour's uncommitted DELETE.
CommitUpdate(call, table, current, refresh, fault) ==
    LET dirty == Dirty(tx.row, tx.data)
        updated == Update(current, tx.row, tx.data)
        pending ==
            IF current = NoRow THEN db
            ELSE [db EXCEPT ![table] = (@ \ {current}) \cup {updated}]
        out == IF fault THEN "OperationalError"
               ELSE IF current = NoRow /\ Dirty(tx.row, tx.data) # {}
               THEN "StaleDataError"
               ELSE IF ConstraintsOk(pending) THEN "row"
               ELSE "IntegrityError"
    IN  /\ dirty # {} =>
              /\ tx.row[PrimaryKey(table)] \notin NbLocks[table]
              /\ "folder_id" \in dirty => tx.data.folder_id \notin NbLocks.folders
        /\ IF out = "row"
           THEN /\ db' = Commit(db, pending)
                /\ tx' = [tx EXCEPT !.pc = refresh]
                /\ prev' = db
                /\ UNCHANGED <<uuid, last>>
           ELSE /\ db' = Rollback(db, pending)
                /\ last' = [op |-> call, out |-> out, row |-> NoRow]
                /\ prev' = db
                /\ tx' = [tx EXCEPT !.pc = "idle"]
                /\ UNCHANGED uuid

\* db_entry = self.get_entry_by_id(entry_id, user_id); if not db_entry:
\* return None; setattr(db_entry, field, value) for the fields that were set.
update_entry_query(entry_id, user_id, entry_data, fault) ==
    /\ tx.pc = "idle"
    /\ UNCHANGED nb
    /\ LET db_entry == get_entry_by_id(db, entry_id, user_id)
       IN  IF fault
           THEN Raise("update_entry", "OperationalError", db)
           ELSE IF db_entry = NoRow
           THEN NotFound("update_entry", "none")
           ELSE /\ tx' = [pc |-> "update_entry", user_id |-> user_id,
                          row |-> db_entry, data |-> model_dump(entry_data),
                          load |-> NoRows, deleted |-> NoRows]
                /\ UNCHANGED <<db, uuid, last, prev>>

update_entry_commit(fault) ==
    /\ tx.pc = "update_entry"
    /\ UNCHANGED nb
    /\ CommitUpdate("update_entry", "password_entries",
                    First({e \in db.password_entries :
                              e.entry_id = tx.row.entry_id}),
                    "refresh_entry", fault)

update_entry_refresh(fault) ==
    /\ tx.pc = "refresh_entry"
    /\ UNCHANGED nb
    /\ RefreshRow("update_entry",
                     First({e \in db.password_entries :
                               e.entry_id = tx.row.entry_id}), fault)

\* db_folder = self.get_folder_by_id(folder_id, user_id); if not db_folder:
\* return None; db_folder.name = folder_data.name.
update_folder_query(folder_id, user_id, folder_data, fault) ==
    /\ tx.pc = "idle"
    /\ UNCHANGED nb
    /\ LET db_folder == get_folder_by_id(db, folder_id, user_id)
       IN  IF fault
           THEN Raise("update_folder", "OperationalError", db)
           ELSE IF db_folder = NoRow
           THEN NotFound("update_folder", "none")
           ELSE /\ tx' = [pc |-> "update_folder", user_id |-> user_id,
                          row |-> db_folder, data |-> [name |-> folder_data.name],
                          load |-> NoRows, deleted |-> NoRows]
                /\ UNCHANGED <<db, uuid, last, prev>>

update_folder_commit(fault) ==
    /\ tx.pc = "update_folder"
    /\ UNCHANGED nb
    /\ CommitUpdate("update_folder", "folders",
                    First({f \in db.folders : f.folder_id = tx.row.folder_id}),
                    "refresh_folder", fault)

update_folder_refresh(fault) ==
    /\ tx.pc = "refresh_folder"
    /\ UNCHANGED nb
    /\ RefreshRow("update_folder",
                     First({f \in db.folders : f.folder_id = tx.row.folder_id}),
                     fault)

\* The names an update can give an entry here: one more than create_entry
\* uses, so that two requests can each write a value the entry did not have.
ConcNames == EntryNames \cup {"Bank"}
ConcEntryUpdates ==
    EntryUpdates({"name", "folder_id"}, ConcNames, {}, FieldFolderIds, 1)

\* SpecConcUpdates: one request runs update_entry or update_folder in three
\* steps, the fetch, the commit and the refresh, while other requests create
\* rows and update or delete the same entry or folder, one after the other
\* and each statement by statement. A fetch at which the storage fails has
\* not read the payload, so one payload stands for all of them.
NextConcUpdates ==
    \/ \E entry_id \in FieldEntryIds, user_id \in FieldUserIds,
          entry_data \in ConcEntryUpdates :
           update_entry_query(entry_id, user_id, entry_data, FALSE)
    \/ \E entry_id \in FieldEntryIds, user_id \in FieldUserIds :
           update_entry_query(entry_id, user_id,
                              CHOOSE entry_data \in ConcEntryUpdates : TRUE, TRUE)
    \/ \E fault \in BOOLEAN : update_entry_commit(fault)
    \/ \E fault \in BOOLEAN : update_entry_refresh(fault)
    \/ \E folder_id \in FieldFolderIds, user_id \in FieldUserIds,
          folder_data \in FolderDatas :
           update_folder_query(folder_id, user_id, folder_data, FALSE)
    \/ \E folder_id \in FieldFolderIds, user_id \in FieldUserIds :
           update_folder_query(folder_id, user_id,
                               CHOOSE folder_data \in FolderDatas : TRUE, TRUE)
    \/ \E fault \in BOOLEAN : update_folder_commit(fault)
    \/ \E fault \in BOOLEAN : update_folder_refresh(fault)
    \/ /\ uuid.users < FieldUsers
       /\ \E user_data \in UserCreates :
              other_create_user(user_data, FALSE)
    \/ /\ uuid.folders < FieldFolders
       /\ \E user_id \in FieldUserIds, folder_data \in FolderDatas :
              other_create_folder(user_id, folder_data, FALSE)
    \/ /\ uuid.password_entries < FieldEntries
       /\ \E user_id \in FieldUserIds, entry_data \in FaultEntryCreates :
              other_create_entry(user_id, entry_data, FALSE)
    \/ \E entry_id \in FieldEntryIds, user_id \in FieldUserIds,
          entry_data \in ConcEntryUpdates :
              other_update_entry_query(entry_id, user_id, entry_data)
    \/ \E folder_id \in FieldFolderIds, user_id \in FieldUserIds,
          folder_data \in FolderDatas :
              other_update_folder_query(folder_id, user_id, folder_data)
    \/ other_update_commit(FALSE)
    \/ other_refresh(FALSE)
    \/ \E entry_id \in FieldEntryIds, user_id \in FieldUserIds :
              other_delete_entry_query(entry_id, user_id)
    \/ \E folder_id \in FieldFolderIds, user_id \in FieldUserIds :
              other_delete_folder_query(folder_id, user_id)
    \/ other_delete_flush(FALSE)
    \/ other_delete_commit(FALSE)

SpecConcUpdates == Init /\ [][NextConcUpdates]_vars

----------------------------------------------------------------------------
\* POST /entries/{entry_id}/edit next to other requests.

\* The status of the response: the redirect for a row, 404 for None, 500
\* for any SQLAlchemyError.
WebStatus(out) ==
    IF out = "row" THEN "303" ELSE IF out = "none" THEN "404" ELSE "500"

\* UUID(folder_id) raises ValueError (400) for a string that is no UUID;
\* then update_entry for TEMP_USER_ID runs up to its commit: the fetch, None
\* (404) when the entry is not stored for TEMP_USER_ID, and the setattr of
\* all six fields.
web_entries_edit_submit_query(entry_id, form, fault) ==
    /\ tx.pc = "idle"
    /\ UNCHANGED nb
    /\ LET call == "web_entries_edit_submit"
           db_entry == get_entry_by_id(db, entry_id, TEMP_USER_ID)
       IN  IF form.folder_id = NotAUuid
           THEN NotFound(call, "400")
           ELSE IF fault
           THEN Raise(call, WebStatus("OperationalError"), db)
           ELSE IF db_entry = NoRow
           THEN NotFound(call, WebStatus("none"))
           ELSE /\ tx' = [pc |-> "web_update", user_id |-> TEMP_USER_ID,
                          row |-> db_entry,
                          data |-> model_dump(EditPayload(form)),
                          load |-> NoRows, deleted |-> NoRows]
                /\ UNCHANGED <<db, uuid, last, prev>>

\* self.db.commit() of update_entry: the UPDATE of the attributes that
\* differ from the row as fetched, applied to the row as stored now. It
\* waits while the entry, or the folder it newly refers to, is under the
\* neighbour's uncommitted DELETE. A SQLAlchemyError is rolled back, raised
\* and answered with 500.
web_entries_edit_submit_commit(fault) ==
    /\ tx.pc = "web_update"
    /\ UNCHANGED nb
    /\ LET dirty == Dirty(tx.row, tx.data)
       IN  dirty # {} =>
              /\ tx.row.entry_id \notin NbLocks.password_entries
              /\ "folder_id" \in dirty => tx.data.folder_id \notin NbLocks.folders
    /\ LET call == "web_entries_edit_submit"
           current == First({e \in db.password_entries :
                                e.entry_id = tx.row.entry_id})
           updated == Update(current, tx.row, tx.data)
           pending ==
               IF current = NoRow THEN db
               ELSE [db EXCEPT !.password_entries = (@ \ {current}) \cup {updated}]
           out == IF fault THEN "OperationalError"
                  ELSE IF current = NoRow /\ Dirty(tx.row, tx.data) # {}
                  THEN "StaleDataError"
                  ELSE IF ConstraintsOk(pending) THEN "row"
                  ELSE "IntegrityError"
       IN  IF out = "row"
           THEN /\ db' = Commit(db, pending)
                /\ tx' = [tx EXCEPT !.pc = "web_refresh"]
                /\ prev' = db
                /\ UNCHANGED <<uuid, last>>
           ELSE /\ db' = Rollback(db, pending)
                /\ last' = [op |-> call, out |-> WebStatus(out), row |-> NoRow]
                /\ prev' = db
                /\ tx' = [tx EXCEPT !.pc = "idle"]
                /\ UNCHANGED uuid

\* self.db.refresh(db_entry) of update_entry, and the response: the redirect
\* 303, or 500 when the refresh raises, with the update committed.
web_entries_edit_submit_refresh(fault) ==
    /\ tx.pc = "web_refresh"
    /\ UNCHANGED nb
    /\ LET current == First({e \in db.password_entries :
                                e.entry_id = tx.row.entry_id})
           out == IF fault THEN "OperationalError"
                  ELSE IF current = NoRow THEN "InvalidRequestError"
                  ELSE "row"
       IN  /\ last' = [op |-> "web_entries_edit_submit", out |-> WebStatus(out),
                       row |-> IF out = "row" THEN current ELSE NoRow]
           /\ prev' = db
           /\ tx' = [tx EXCEPT !.pc = "idle"]
           /\ UNCHANGED <<db, uuid>>

\* The owner ids of SpecWeb: the placeholder identity and the users created.
WebUserIds == {TEMP_USER_ID} \cup Ids(FieldUsers)

\* The user the other requests of SpecWeb create.
WebUserCreates == {u \in UserCreates : u.username = "alice"}

\* The folder the other requests of SpecWeb create.
WebFolderCreates == {f \in FolderDatas : f.name = "Work"}

\* The forms submitted in SpecWeb: they rename the entry and fill in at most
\* one of username, notes and folder_id.
WebForms ==
    {form \in EditForms :
        /\ form.name = "GitHub"
        /\ form.password \in {None, Blank}
        /\ form.website_url \in {None, Blank}}

\* The entries the other requests of SpecWeb create: named Gmail, in a folder
\* or in none, the username and the password both given or both left out.
WebEntryCreates ==
    {e \in FieldEntryCreates :
        /\ e.name = "Gmail"
        /\ e.password = e.username
        /\ e.website_url = None
        /\ e.notes = None}

\* The updates the other requests of SpecWeb make: of the username, or of
\* nothing.
WebEntryUpdates == EntryUpdates({"username"}, {}, Texts, {}, 1)

\* The database the application starts on: empty, or prepared with the row
\* of the placeholder identity.
InitWeb ==
    /\ db \in {NoRows, [NoRows EXCEPT !.users = {PlaceholderUser}]}
    /\ uuid = [users |-> 0, folders |-> 0, password_entries |-> 0]
    /\ prev = db
    /\ last = [op |-> "init", out |-> "none", row |-> NoRow]
    /\ tx = Closed
    /\ nb = NbClosed

\* SpecWeb: one request submits the edit form in three steps, the fetch, the
\* commit and the refresh, while other requests create a user, folders and
\* entries and update or delete entries and folders, one after the other and
\* each statement by statement.
NextWeb ==
    \/ \E entry_id \in FieldEntryIds, form \in WebForms, fault \in BOOLEAN :
           web_entries_edit_submit_query(entry_id, form, fault)
    \/ \E fault \in BOOLEAN : web_entries_edit_submit_commit(fault)
    \/ \E fault \in BOOLEAN : web_entries_edit_submit_refresh(fault)
    \/ /\ uuid.users < FieldUsers
       /\ \E user_data \in WebUserCreates :
              other_create_user(user_data, FALSE)
    \/ /\ uuid.folders < FieldFolders
       /\ \E user_id \in WebUserIds, folder_data \in WebFolderCreates :
              other_create_folder(user_id, folder_data, FALSE)
    \/ /\ uuid.password_entries < FieldEntries
       /\ \E user_id \in WebUserIds, entry_data \in WebEntryCreates :
              other_create_entry(user_id, entry_data, FALSE)
    \/ \E entry_id \in FieldEntryIds, user_id \in WebUserIds,
          entry_data \in WebEntryUpdates :
              other_update_entry_query(entry_id, user_id, entry_data)
    \/ other_update_commit(FALSE)
    \/ other_refresh(FALSE)
    \/ \E entry_id \in FieldEntryIds, user_id \in WebUserIds :
              other_delete_entry_query(entry_id, user_id)
    \/ \E folder_id \in FieldFolderIds, user_id \in WebUserIds :
              other_delete_folder_query(folder_id, user_id)
    \/ other_delete_flush(FALSE)
    \/ other_delete_commit(FALSE)

SpecWeb == InitWeb /\ [][NextWeb]_vars

----------------------------------------------------------------------------
\* Properties

\* A row of the table with this id, under any owner.
UserExists(d, user_id) == \E u \in d.users : u.user_id = user_id
FolderExists(d, folder_id) == \E f \in d.folders : f.folder_id = folder_id
EntryExists(d, entry_id) == \E e \in d.password_entries : e.entry_id = entry_id

\* A row with this id whose owner is user_id.
OwnsFolder(d, folder_id, user_id) ==
    \E f \in d.folders : f.folder_id = folder_id /\ f.user_id = user_id
OwnsEntry(d, entry_id, user_id) ==
    \E e \in d.password_entries : e.entry_id = entry_id /\ e.user_id = user_id

\* C1: after delete_folder(F, U) returns True, F is gone, every entry that
\* referred to F is still stored with folder_id None and its other fields as
\* they were, get_all_entries_for_user(U) returns those of U, and
\* get_folder_by_id(F, U) finds nothing.
C1_DeleteFolderKeepsEntries ==
    [][\A folder_id \in FolderIds, user_id \in UserIds :
          (/\ last'.op = "delete_folder"
           /\ last'.out = "true"
           /\ delete_folder(folder_id, user_id, NoFault)) =>
              /\ ~FolderExists(db', folder_id)
              /\ get_folder_by_id(db', folder_id, user_id) = NoRow
              /\ \A e \in db.password_entries :
                    e.folder_id = folder_id =>
                        /\ [e EXCEPT !.folder_id = None] \in db'.password_entries
                        /\ e.user_id = user_id =>
                              [e EXCEPT !.folder_id = None] \in
                                  get_all_entries_for_user(db', user_id, None)]_vars

\* C2: get_entry_by_id and get_folder_by_id return a row only when a row with
\* that id exists and its owner is the caller; an id that does not exist and
\* an id stored under another owner both give the same NoRow.
C2_GetIsOwnerScoped ==
    \A user_id \in UserIds :
        /\ \A entry_id \in EntryIds :
              LET r == get_entry_by_id(db, entry_id, user_id)
              IN  /\ r # NoRow =>
                        r \in db.password_entries /\ r.entry_id = entry_id
                                                  /\ r.user_id = user_id
                  /\ ~EntryExists(db, entry_id) => r = NoRow
                  /\ (\E e \in db.password_entries :
                          e.entry_id = entry_id /\ e.user_id # user_id) => r = NoRow
        /\ \A folder_id \in FolderIds :
              LET r == get_folder_by_id(db, folder_id, user_id)
              IN  /\ r # NoRow =>
                        r \in db.folders /\ r.folder_id = folder_id
                                         /\ r.user_id = user_id
                  /\ ~FolderExists(db, folder_id) => r = NoRow
                  /\ (\E f \in db.folders :
                          f.folder_id = folder_id /\ f.user_id # user_id) => r = NoRow

\* An entry and a folder of one user are stored while another user exists,
\* the owner's fetch returns the entry and the other user's fetch of either
\* finds nothing, as does a fetch of an id that was never stored.
C2_Witness ==
    \E u1, u2 \in db.users, e \in db.password_entries, f \in db.folders :
        /\ u1 # u2
        /\ e.user_id = u1.user_id
        /\ f.user_id = u1.user_id
        /\ get_entry_by_id(db, e.entry_id, u1.user_id) = e
        /\ get_entry_by_id(db, e.entry_id, u2.user_id) = NoRow
        /\ get_folder_by_id(db, f.folder_id, u2.user_id) = NoRow
        /\ \E entry_id \in EntryIds :
              ~EntryExists(db, entry_id)
                  /\ get_entry_by_id(db, entry_id, u2.user_id) = NoRow

\* C3: after delete_user(U) returns True there is no user U, no folder owned
\* by U and no entry owned by U.
C3_DeleteUserCascades ==
    [][\A user_id \in UserIds :
          (/\ last'.op = "delete_user"
           /\ last'.out = "true"
           /\ delete_user(user_id, NoFault)) =>
              /\ ~UserExists(db', user_id)
              /\ \A f \in db'.folders : f.user_id # user_id
              /\ \A e \in db'.password_entries : e.user_id # user_id]_vars

\* delete_user returned True for a user who owned a folder and two entries,
\* one of them in that folder and one updated before the deletion.
C3_Witness ==
    /\ last.op = "delete_user"
    /\ last.out = "true"
    /\ \E u \in prev.users \ db.users :
          /\ \E f \in prev.folders : f.user_id = u.user_id
          /\ \E e1, e2 \in prev.password_entries :
                /\ e1 # e2
                /\ e1.user_id = u.user_id /\ e1.folder_id # None
                /\ e2.user_id = u.user_id /\ e2.name = "GitHub"

\* What update_entry is to make of the entry old under the payload p: the
\* fields p names hold p's values, the others hold what they held.
Updated(old, p) ==
    [c \in DOMAIN old |-> IF c \in p.model_fields_set THEN p[c] ELSE old[c]]

\* C4 as stated: update_entry on an entry of the caller sets every field the
\* payload names to the value supplied, None included, for each of the six
\* fields, and leaves the other fields as they were.
C4_UpdateSetsEveryPresentField ==
    [][\A entry_id \in FieldEntryIds, user_id \in FieldUserIds,
          p \in FieldEntryUpdates :
          LET old == get_entry_by_id(db, entry_id, user_id)
          IN  (/\ last'.op = "update_entry"
               /\ old # NoRow
               /\ update_entry(entry_id, user_id, p, NoFault)) =>
                  get_entry_by_id(db', entry_id, user_id) = Updated(old, p)]_vars

\* The payloads the storage refuses: name set to None (the column is
\* nullable=False), or folder_id set to an id no stored folder has.
Refused(d, p) ==
    \/ "name" \in p.model_fields_set /\ p.name = None
    \/ /\ "folder_id" \in p.model_fields_set
       /\ p.folder_id # None
       /\ ~FolderExists(d, p.folder_id)

\* C4 amended: update_entry on an entry of the caller sets every field the
\* payload names to the value supplied, None included for username, password,
\* website_url, notes and folder_id, and leaves the other fields as they were;
\* a payload that sets name to None, or folder_id to the id of no stored
\* folder, ends in IntegrityError and leaves every table as it was.
C4_UpdateSetsPresentFieldsOrIsRefused ==
    [][\A entry_id \in FieldEntryIds, user_id \in FieldUserIds,
          p \in FieldEntryUpdates :
          LET old == get_entry_by_id(db, entry_id, user_id)
          IN  (/\ last'.op = "update_entry"
               /\ old # NoRow
               /\ update_entry(entry_id, user_id, p, NoFault)) =>
                  IF Refused(db, p)
                  THEN last'.out = "IntegrityError" /\ db' = db
                  ELSE /\ last'.out = "row"
                       /\ get_entry_by_id(db', entry_id, user_id) = Updated(old, p)
                       /\ last'.row = Updated(old, p)]_vars

\* update_entry returned the entry after overwriting a stored text with None
\* while another stored text and the name stayed as they were.
C4_Witness ==
    /\ last.op = "update_entry"
    /\ last.out = "row"
    /\ \E old \in prev.password_entries :
          /\ old.entry_id = last.row.entry_id
          /\ \E c \in OptionalText : old[c] # None /\ last.row[c] = None
          /\ \E c \in OptionalText : old[c] # None /\ last.row[c] = old[c]
          /\ last.row.name = old.name
          /\ last.row \in db.password_entries

\* C5: get_all_entries_for_user with a folder id returns exactly the entries
\* whose owner is the caller and whose folder_id is that id; without one it
\* returns exactly the entries whose owner is the caller, in a folder or not;
\* it never returns an entry of another owner.
C5_ListIsExact ==
    \A user_id \in UserIds :
        /\ \A folder_id \in FolderIds :
              LET rows == get_all_entries_for_user(db, user_id, folder_id)
              IN  /\ rows \subseteq db.password_entries
                  /\ \A e \in db.password_entries :
                        e \in rows <=>
                            (e.user_id = user_id /\ e.folder_id = folder_id)
        /\ LET rows == get_all_entries_for_user(db, user_id, None)
           IN  /\ rows \subseteq db.password_entries
               /\ \A e \in db.password_entries : e \in rows <=> e.user_id = user_id

\* A user owns an entry in a folder and an entry in none while another user
\* exists: the first user's filtered listing is the first entry alone and the
\* unfiltered one is both, and the other user's listings hold neither.
C5_Witness ==
    \E e1, e2 \in db.password_entries, u \in db.users :
        /\ e1.user_id = e2.user_id /\ u.user_id # e1.user_id
        /\ e1.folder_id # None /\ e2.folder_id = None
        /\ get_all_entries_for_user(db, e1.user_id, e1.folder_id) = {e1}
        /\ get_all_entries_for_user(db, e1.user_id, None) = {e1, e2}
        /\ get_all_entries_for_user(db, u.user_id, e1.folder_id) = {}
        /\ get_all_entries_for_user(db, u.user_id, None) = {}

\* C6: create_user with a username a stored user already has raises the
\* storage's uniqueness error and stores nothing: users, folders and entries
\* are what they were before the call.
C6_DuplicateUsernameConflicts ==
    [][\A user_data \in UserCreates :
          (/\ last'.op = "create_user"
           /\ (\E u \in db.users : u.username = user_data.username)
           /\ create_user(user_data, NoFault)) =>
              /\ last'.out = "IntegrityError"
              /\ db' = db]_vars

\* create_user was refused while a user, a folder and an entry were stored,
\* and the one stored user still is the only one.
C6_Witness ==
    /\ last.op = "create_user"
    /\ last.out = "IntegrityError"
    /\ Cardinality(db.users) = 1
    /\ db.folders # {}
    /\ db.password_entries # {}
    /\ db = prev

\* The exceptions the storage raises (subclasses of SQLAlchemyError).
StorageErrors ==
    {"OperationalError", "IntegrityError", "InvalidRequestError", "StaleDataError"}

MutatingOps ==
    {"create_user", "delete_user", "create_folder", "update_folder",
     "delete_folder", "create_entry", "update_entry", "delete_entry"}

\* A call of a method during which the storage fails: at a statement of the
\* transaction, or at the refresh when the method gets that far (a call that
\* returns before its refresh is a call without failure).
FailingCall ==
    \/ Calls(FieldUsers, FieldFolders, FieldEntries,
             FieldUserIds, FieldFolderIds, FieldEntryIds,
             FaultEntryCreates, FaultEntryUpdates, {"commit"})
    \/ /\ Calls(FieldUsers, FieldFolders, FieldEntries,
                FieldUserIds, FieldFolderIds, FieldEntryIds,
                FaultEntryCreates, FaultEntryUpdates, {"refresh"})
       /\ ~Calls(FieldUsers, FieldFolders, FieldEntries,
                 FieldUserIds, FieldFolderIds, FieldEntryIds,
                 FaultEntryCreates, FaultEntryUpdates, {NoFault})

\* C7: a mutating method that meets a storage failure ends by raising it, and
\* the stored state is the state before the call: nothing the method had
\* staged is kept. The call ends with the error and with no result, so the
\* method did not swallow it or try again.
\* The create and update methods refresh inside the try that commits: when
\* the storage fails at the refresh the error is raised with the row already
\* stored, so the stored state is not the state before the call.
C7_StorageFailureRollsBack ==
    [][/\ last'.out \in StorageErrors => last'.op \in MutatingOps /\ db' = db
       /\ FailingCall => last'.out = "OperationalError" /\ db' = db]_vars

\* C8: update_folder, delete_folder, update_entry and delete_entry called with
\* an id that is not stored, or is stored under another owner, return None or
\* False and leave users, folders and entries as they were.
C8_NotOwnedIsNotFound ==
    [][\A user_id \in UserIds :
          /\ \A folder_id \in FolderIds :
                ~OwnsFolder(db, folder_id, user_id) =>
                    /\ \A folder_data \in FolderDatas :
                          (last'.op = "update_folder"
                              /\ update_folder(folder_id, user_id, folder_data, NoFault))
                          => last'.out = "none" /\ db' = db
                    /\ (last'.op = "delete_folder"
                           /\ delete_folder(folder_id, user_id, NoFault))
                          => last'.out = "false" /\ db' = db
          /\ \A entry_id \in EntryIds :
                ~OwnsEntry(db, entry_id, user_id) =>
                    /\ \A entry_data \in SpecEntryUpdates :
                          (last'.op = "update_entry"
                              /\ update_entry(entry_id, user_id, entry_data, NoFault))
                          => last'.out = "none" /\ db' = db
                    /\ (last'.op = "delete_entry"
                           /\ delete_entry(entry_id, user_id, NoFault))
                          => last'.out = "false" /\ db' = db]_vars

\* delete_entry returned False while an entry of another user, in a folder
\* of that user, was stored, and nothing changed.
C8_Witness ==
    /\ last.op \in {"delete_entry", "update_entry"}
    /\ last.out \in {"false", "none"}
    /\ db = prev
    /\ Cardinality(db.users) = 2
    /\ \E e \in db.password_entries, f \in db.folders :
          e.folder_id = f.folder_id /\ e.user_id = f.user_id
    /\ Cardinality({e.user_id : e \in db.password_entries}) = 1

\* C9: at every moment the stored state, which is what any other request
\* reads, has no folder and no entry whose owner is not a stored user; no
\* step of delete_user other than its successful commit changes the stored
\* state, so a delete_user that fails, be it at a storage failure or as the
\* one a deadlock with another request is ended for, leaves the user and
\* every folder and entry of the user stored; and the successful commit
\* leaves no row of the user.
C9_DeleteUserIsAtomic ==
    /\ [](/\ \A f \in db.folders : UserExists(db, f.user_id)
          /\ \A e \in db.password_entries : UserExists(db, e.user_id))
    /\ [][tx' # tx =>
             IF last'.op = "delete_user" /\ last'.out = "true" /\ tx.pc = "commit"
             THEN /\ ~UserExists(db', tx.user_id)
                  /\ \A f \in db'.folders : f.user_id # tx.user_id
                  /\ \A e \in db'.password_entries : e.user_id # tx.user_id
             ELSE db' = db]_vars

\* delete_user committed for a user who owned a folder and an entry the
\* session had collected and an entry another request stored after that,
\* while another user's entry stays stored.
C9_Witness ==
    /\ last.op = "delete_user"
    /\ last.out = "true"
    /\ tx.pc = "idle"
    /\ tx.load.folders # {}
    /\ tx.load.password_entries # {}
    /\ \E e \in prev.password_entries :
          e.user_id = tx.user_id /\ e.entry_id \notin tx.load.password_entries
    /\ \A e \in db.password_entries : e.user_id # tx.user_id
    /\ ~UserExists(db, tx.user_id)

\* C12: no step changes the owner of a stored folder or of a stored entry:
\* a folder or entry that is stored before and after a step has the same
\* user_id, whatever update_folder or update_entry was given. An id is never
\* handed out twice, so this is the owner the row was created with.
C12_OwnerIsImmutable ==
    [][/\ \A f \in db.folders, g \in db'.folders :
             f.folder_id = g.folder_id => f.user_id = g.user_id
       /\ \A e \in db.password_entries, g \in db'.password_entries :
             e.entry_id = g.entry_id => e.user_id = g.user_id]_vars

\* update_folder or update_entry returned the changed row while two users
\* were stored, and the row is stored under the owner it had.
C12_Witness ==
    /\ last.op \in {"update_folder", "update_entry"}
    /\ last.out = "row"
    /\ Cardinality(db.users) = 2
    /\ last.row \in db.folders \cup db.password_entries
    /\ last.row \notin prev.folders \cup prev.password_entries
    /\ \E r \in prev.folders \cup prev.password_entries :
          r.user_id = last.row.user_id /\ r.name # last.row.name

\* C13: delete_entry and delete_folder return True exactly when a row with
\* that id and that owner was stored before the call and False otherwise;
\* after True the fetch with the same id and owner finds nothing, so the same
\* delete called again returns False.
C13_DeleteReturnsFound ==
    [][\A user_id \in UserIds :
          /\ \A entry_id \in EntryIds :
                (last'.op = "delete_entry"
                    /\ delete_entry(entry_id, user_id, NoFault)) =>
                   /\ last'.out \in {"true", "false"}
                   /\ last'.out = "true" <=> OwnsEntry(db, entry_id, user_id)
                   /\ last'.out = "true" =>
                         /\ get_entry_by_id(db', entry_id, user_id) = NoRow
                         /\ ~OwnsEntry(db', entry_id, user_id)
          /\ \A folder_id \in FolderIds :
                (last'.op = "delete_folder"
                    /\ delete_folder(folder_id, user_id, NoFault)) =>
                   /\ last'.out \in {"true", "false"}
                   /\ last'.out = "true" <=> OwnsFolder(db, folder_id, user_id)
                   /\ last'.out = "true" =>
                         /\ get_folder_by_id(db', folder_id, user_id) = NoRow
                         /\ ~OwnsFolder(db', folder_id, user_id)]_vars

\* delete_entry returned True: the entry it removed belonged to a user who
\* still owns another entry, a second user is stored, and a fetch of the
\* removed entry by its owner finds nothing.
C13_Witness ==
    /\ last.op = "delete_entry"
    /\ last.out = "true"
    /\ Cardinality(db.users) = 2
    /\ \E e \in prev.password_entries \ db.password_entries :
          /\ get_entry_by_id(db, e.entry_id, e.user_id) = NoRow
          /\ \E o \in db.password_entries : o.user_id = e.user_id
          /\ db.password_entries = prev.password_entries \ {e}

\* C15: delete_folder(F, A) leaves every entry owned by a user other than A
\* stored with the field values it had, also an entry that refers to F.
C15_DeleteFolderSparesOtherOwners ==
    [][\A folder_id \in FolderIds, user_id \in UserIds :
          (/\ last'.op = "delete_folder"
           /\ delete_folder(folder_id, user_id, NoFault)) =>
              \A e \in db.password_entries :
                  e.user_id # user_id => e \in db'.password_entries]_vars

\* C18: every stored entry has a name other than None, and update_entry on an
\* entry of the caller with a payload that sets name to None ends in
\* IntegrityError with every table as it was before the call.
C18_NameIsNeverNull ==
    /\ [](\A e \in db.password_entries : e.name # None)
    /\ [][\A entry_id \in FieldEntryIds, user_id \in FieldUserIds,
             p \in FieldEntryUpdates :
             (/\ last'.op = "update_entry"
              /\ "name" \in p.model_fields_set
              /\ p.name = None
              /\ OwnsEntry(db, entry_id, user_id)
              /\ update_entry(entry_id, user_id, p, NoFault)) =>
                 /\ last'.out = "IntegrityError"
                 /\ db' = db]_vars

\* update_entry ended in IntegrityError while every folder id a payload can
\* name was stored, so the payload was refused for its name; the entry is
\* stored as before, with its name and a text.
C18_Witness ==
    /\ last.op = "update_entry"
    /\ last.out = "IntegrityError"
    /\ db = prev
    /\ \A folder_id \in FieldFolderIds : FolderExists(db, folder_id)
    /\ \E e \in db.password_entries :
          e.name # None /\ \E c \in OptionalText : e[c] # None

\* The optional fields of an entry the edit form carries.
OptionalFields == OptionalText \cup {"folder_id"}

\* The entry the form describes: the name and every optional field as the
\* form gives it, None where the form left it out or blank.
Replaced(old, form) ==
    [c \in DOMAIN old |->
        IF c \in {"entry_id", "user_id"} THEN old[c]
        ELSE IF form[c] \in {None, Blank} THEN None
        ELSE form[c]]

\* The entry stored under the id of the entry the edit request fetched.
Edited(d) == First({e \in d.password_entries : e.entry_id = tx.row.entry_id})

\* The forms whose six fields, as the handler passes them on, are the
\* payload the edit request holds.
Submitted == {form \in WebForms : model_dump(EditPayload(form)) = tx.data}

\* The step of the handler that fetched the entry and assigned the payload.
EditFetched == tx.pc = "idle" /\ tx'.pc = "web_update" /\ nb' = nb

\* The step that committed the update of an entry that is stored.
EditCommitted ==
    /\ tx.pc = "web_update"
    /\ tx'.pc = "web_refresh"
    /\ Edited(db') # NoRow

\* C19 as stated: the edit form submitted for an entry of TEMP_USER_ID
\* passes all six fields to update_entry, and when its update is committed
\* every optional field the form left out or blank is None in the stored
\* entry.
C19_EditOverwritesBlankFields ==
    [][/\ EditFetched =>
             /\ DOMAIN tx'.data = EntryFields
             /\ tx'.row.user_id = TEMP_USER_ID
       /\ EditCommitted =>
             \A form \in Submitted, c \in OptionalFields :
                 form[c] \in {None, Blank} => Edited(db')[c] = None]_vars

\* C19 amended: the edit form submitted for an entry of TEMP_USER_ID passes
\* all six fields to update_entry, None for every optional field the form
\* left out or blank. When its update is committed, such a field is None in
\* the stored entry if it held a value when the handler fetched the entry,
\* whatever other requests did since. If it was None when the handler
\* fetched the entry it is not written: it is None in the stored entry when
\* no other request has changed it since the fetch, and it keeps what
\* another request committed since otherwise.
C19_EditReplacesUnchangedFields ==
    [][/\ EditFetched =>
             /\ DOMAIN tx'.data = EntryFields
             /\ tx'.row.user_id = TEMP_USER_ID
             /\ \A form \in WebForms, entry_id \in FieldEntryIds :
                   web_entries_edit_submit_query(entry_id, form, FALSE) =>
                       \A c \in EntryFields :
                           tx'.data[c] = Replaced(tx'.row, form)[c]
       /\ EditCommitted =>
             \A form \in Submitted, c \in OptionalFields :
                 form[c] \in {None, Blank} =>
                     /\ tx.row[c] # None => Edited(db')[c] = None
                     /\ tx.row[c] = None => Edited(db')[c] = Edited(db)[c]
                     /\ Edited(db)[c] = tx.row[c] => Edited(db')[c] = None]_vars

\* The form was accepted for an entry that held two texts and a folder when
\* it was fetched, and the stored entry now holds None for all optional
\* fields but one.
C19_Witness ==
    /\ last.op = "web_entries_edit_submit"
    /\ last.out = "303"
    /\ tx.pc = "idle"
    /\ last.row \in db.password_entries
    /\ last.row.user_id = TEMP_USER_ID
    /\ last.row.entry_id = tx.row.entry_id
    /\ tx.row.folder_id # None
    /\ Cardinality({c \in OptionalText : tx.row[c] # None}) >= 2
    /\ Cardinality({c \in OptionalFields : last.row[c] # None}) = 1
    /\ \E c \in OptionalText : tx.row[c] # None /\ last.row[c] = None

\* C17: in every state, while delete_user runs next to other requests, the
\* owner of every stored folder and entry is a stored user. create_folder and
\* create_entry for an owner id that is not stored end in IntegrityError, or
\* in OperationalError when the storage fails, and store nothing. An INSERT
\* of create_entry that had to wait for delete_user ends with the entry
\* stored for a stored owner, or with a storage error and nothing stored;
\* and a deadlock between the two ends one of them in OperationalError and
\* stores nothing.
C17_OwnerAlwaysExists ==
    /\ [](\A r \in db.folders \cup db.password_entries :
              \E u \in db.users : u.user_id = r.user_id)
    /\ [][\A user_id \in UserIds, fault \in BOOLEAN :
             (nb.pc = "idle" /\ ~UserExists(db, user_id)) =>
                 /\ \A folder_data \in ConcFolderDatas :
                       other_create_folder(user_id, folder_data, fault) =>
                           /\ last'.op = "create_folder"
                           /\ last'.out = IF fault THEN "OperationalError"
                                          ELSE "IntegrityError"
                           /\ db' = db
                 /\ \A entry_data \in ConcEntryCreates :
                       other_create_entry(user_id, entry_data, fault) =>
                           /\ last'.op = "create_entry"
                           /\ last'.out = IF fault THEN "OperationalError"
                                          ELSE "IntegrityError"
                           /\ db' = db]_vars
    /\ [][(nb.pc = "insert" /\ nb'.pc # "insert") =>
             IF nb'.pc = "refresh"
             THEN /\ db' = [db EXCEPT !.password_entries = @ \cup {nb.row}]
                  /\ UserExists(db', nb.row.user_id)
             ELSE /\ db' = db
                  /\ last'.op = "create_entry"
                  /\ last'.out \in {"IntegrityError", "OperationalError"}]_vars
    /\ [][\A victim \in {"delete_user", "other"} :
             deadlock_detected(victim) =>
                 /\ db' = db
                 /\ last'.out = "OperationalError"
                 /\ last'.op = IF victim = "delete_user" THEN "delete_user"
                               ELSE nb.call]_vars

\* create_entry was refused while no user was stored, after delete_user had
\* committed for a user with a folder and an entry: nothing is stored.
C17_Witness ==
    /\ last.op = "create_entry"
    /\ last.out = "IntegrityError"
    /\ db = prev
    /\ tx.pc = "idle"
    /\ tx.user_id # None
    /\ db.users = {}
    /\ tx.deleted.folders # {}
    /\ tx.deleted.password_entries # {}
    /\ db.folders = {} /\ db.password_entries = {}

\* C16: in every state, while delete_folder runs next to other requests, the
\* folder_id of every stored entry is None or the id of a stored folder;
\* create_entry naming a folder that is not stored ends in IntegrityError,
\* also when its INSERT had waited for the delete_folder that removed it,
\* update_entry in IntegrityError, or in StaleDataError when its entry is no
\* longer stored either, and both store nothing.
C16_FolderReferenceIsValid ==
    /\ [](\A e \in db.password_entries :
              e.folder_id = None \/ FolderExists(db, e.folder_id))
    /\ [][\A folder_id \in FolderIds :
             ~FolderExists(db, folder_id) =>
                 /\ \A user_id \in UserIds, entry_data \in SpecEntryCreates :
                       (/\ entry_data.folder_id = folder_id
                        /\ other_create_entry(user_id, entry_data, FALSE)) =>
                           /\ last'.op = "create_entry"
                           /\ last'.out = "IntegrityError"
                           /\ db' = db
                 /\ (/\ nb.pc = "insert"
                     /\ nb.row.folder_id = folder_id
                     /\ other_create_entry_insert(FALSE)) =>
                        /\ last'.op = "create_entry"
                        /\ last'.out = "IntegrityError"
                        /\ db' = db
                 /\ (/\ nb.pc = "update"
                     /\ nb.call = "update_entry"
                     /\ "folder_id" \in Dirty(nb.row, nb.data)
                     /\ nb.data.folder_id = folder_id
                     /\ other_update_commit(FALSE)) =>
                        /\ last'.op = "update_entry"
                        /\ last'.out \in {"IntegrityError", "StaleDataError"}
                        /\ db' = db]_vars

\* delete_folder committed after another request had stored an entry in the
\* folder that the session had not collected: that entry is stored with
\* folder_id None.
C16_Witness ==
    /\ last.op = "delete_folder"
    /\ last.out = "true"
    /\ tx.pc = "idle"
    /\ \E e \in prev.password_entries :
          /\ e.folder_id \in tx.deleted.folders
          /\ e.entry_id \notin tx.load.password_entries
          /\ [e EXCEPT !.folder_id = None] \in db.password_entries
    /\ \A folder_id \in tx.deleted.folders : ~FolderExists(db, folder_id)

\* C11: in every state no two stored users have the same username, also
\* while a create_user is between its add and its commit and another
\* request stores the same username: the commit that meets a stored user of
\* that name ends in IntegrityError and stores nothing, so at most one of the
\* two succeeds; a commit that succeeds stores exactly the new user, and the
\* refresh after it stores nothing. create_user makes no query before its
\* INSERT.
C11_UsernamesStayUnique ==
    /\ [](\A u1, u2 \in db.users :
              u1.username = u2.username => u1.user_id = u2.user_id)
    /\ [][/\ (tx.pc = "insert" /\ tx'.pc # "insert") =>
                IF \E u \in db.users : u.username = tx.row.username
                THEN /\ tx'.pc = "idle"
                     /\ last'.out \in StorageErrors
                     /\ db' = db
                ELSE IF tx'.pc = "refresh"
                THEN db'.users = db.users \cup {tx.row}
                ELSE last'.out = "OperationalError" /\ db' = db
          /\ (tx.pc = "refresh" /\ tx'.pc = "idle") => db' = db]_vars

\* The commit of a create_user ended in IntegrityError: while it was pending
\* another request stored the same username, and that user is the only one
\* stored with the name.
C11_Witness ==
    /\ last.op = "create_user"
    /\ last.out = "IntegrityError"
    /\ tx.pc = "idle"
    /\ tx.user_id # None
    /\ db = prev
    /\ \E u \in db.users :
          /\ u.username = tx.row.username
          /\ u.user_id # tx.row.user_id
          /\ \A v \in db.users : v.username = u.username => v = u
    /\ Cardinality(db.users) = 2

\* The row with the primary key of the row the open session loaded, as it
\* is stored in d.
Stored(d) ==
    IF tx.pc \in {"update_folder", "refresh_folder"}
    THEN First({f \in d.folders : f.folder_id = tx.row.folder_id})
    ELSE First({e \in d.password_entries : e.entry_id = tx.row.entry_id})

\* The commit of the update the session has open, the row still stored.
UpdateCommits ==
    /\ tx.pc \in {"update_entry", "update_folder"}
    /\ tx'.pc # tx.pc
    /\ Stored(db) # NoRow

\* The refresh of the update the session has committed, the row still
\* stored.
UpdateRefreshes ==
    /\ tx.pc \in {"refresh_entry", "refresh_folder"}
    /\ tx'.pc = "idle"
    /\ Stored(db) # NoRow

\* C14 as stated: when an update commits after another request changed a
\* field it also supplied, the update is not turned away and the stored
\* value of that field is the value the update supplied.
C14_LastCommitWins ==
    [][UpdateCommits =>
          \A c \in DOMAIN tx.data :
              (Stored(db)[c] # tx.row[c] /\ tx'.pc # "idle") =>
                  Stored(db')[c] = tx.data[c]]_vars

\* C14 amended: an update that commits is never turned away for what another
\* request wrote to the row in the meantime (its commit fails only with the
\* storage's error for its own payload, and then stores nothing); every
\* field it supplied with a value other than the one it read holds the
\* supplied value after its commit, whatever another request stored there; a
\* field it supplied with the value it read, and every field it did not
\* supply, keeps what is stored, so there the other request's value stays.
\* The refresh after the commit changes nothing and returns the row as it is
\* stored then.
C14_LastChangedWriteWins ==
    [][/\ UpdateCommits =>
             IF tx'.pc = "idle"
             THEN /\ last'.out \in {"IntegrityError", "OperationalError"}
                  /\ db' = db
             ELSE \A c \in DOMAIN Stored(db) :
                      Stored(db')[c] =
                          IF c \in DOMAIN tx.data /\ tx.data[c] # tx.row[c]
                          THEN tx.data[c]
                          ELSE Stored(db)[c]
       /\ UpdateRefreshes =>
             /\ db' = db
             /\ last'.out \in {"row", "OperationalError"}
             /\ last'.out = "row" => last'.row = Stored(db)]_vars

\* update_entry committed a name after another request had changed the name
\* the session read to a third one: the stored name is the one committed
\* last.
C14_Witness ==
    /\ tx.pc = "refresh_entry"
    /\ "name" \in DOMAIN tx.data
    /\ \E e \in prev.password_entries :
          /\ e.entry_id = tx.row.entry_id
          /\ e.name # tx.row.name
          /\ e.name # tx.data.name
          /\ tx.data.name # tx.row.name
    /\ Stored(db) # NoRow
    /\ Stored(db).name = tx.data.name

====
